---------------------------- MODULE Spec2Model ----------------------------
(***************************************************************************)
(* A model of the EPUB summarizer: the chapter extraction of extract.py,   *)
(* the cache, compression, retry and summarization of summarize.py, and    *)
(* the run of main.py.                                                     *)
(*                                                                         *)
(* Representation.  A string is a sequence of one-character strings.  A    *)
(* chapter text is a sequence of lines, a line a sequence of words, a word *)
(* a non-empty string without whitespace: the text whose lines hold their  *)
(* words separated by single spaces.  str.split() is then the              *)
(* concatenation of the lines, str.splitlines() the lines themselves.      *)
(* An accented letter is the letter followed by its accent ("i'", "n~"),   *)
(* the ellipsis character is "...".                                        *)
(* An Optional[str] is a record, None or Some(s); the None of last_err is  *)
(* the string NoneVal.  An exception raised by a function is a result      *)
(* record whose ok field is FALSE.  An EPUB archive is a record of its     *)
(* member names and of what its XML members hold; a content document is    *)
(* the sequence of its elements.                                           *)
(***************************************************************************)
EXTENDS Integers, Sequences, FiniteSets, TLC

VARIABLES
  pc,                \* main(): the statement the run is at
  args,              \* main(): the parsed command line
  chapters,          \* main(): the list extract_chapters returned
  prompt_template,   \* main(): the loaded template
  idx,               \* main(): position of the for loop over chapters (1-based)
  chapter_summaries, \* main(): the {title, summary} list handed to the builder
  cache,             \* the .cache_summaries directory: key -> file content
  llm,               \* the frame of call_llm_with_retry
  cur,               \* the frame of summarize_chapter
  events,            \* observed effects of the run: posts, sleeps, builder calls
  calls,             \* the last two completed summarize_chapter calls
  run,               \* how many times the command has been started
  fnIn,              \* input of the pure function under test
  fnOut              \* its result

vars == <<pc, args, chapters, prompt_template, idx, chapter_summaries, cache,
          llm, cur, events, calls, run, fnIn, fnOut>>

mainVars == <<pc, args, chapters, prompt_template, idx, chapter_summaries,
              cache, cur, calls, run>>

NoneVal == "None"

-----------------------------------------------------------------------------
(* Strings *)

IsSpace(c) == c \in {" ", "\n", "\t", "\r"}

RECURSIVE LStrip(_)
LStrip(s) == IF s # <<>> /\ IsSpace(Head(s)) THEN LStrip(Tail(s)) ELSE s

RECURSIVE RStrip(_)
RStrip(s) ==
  IF s # <<>> /\ IsSpace(s[Len(s)]) THEN RStrip(SubSeq(s, 1, Len(s) - 1)) ELSE s

\* str.strip()
Strip(s) == RStrip(LStrip(s))

\* The concatenation of the sequences ss[lo..hi], by halves.
RECURSIVE FlattenRange(_, _, _)
FlattenRange(ss, lo, hi) ==
  IF lo > hi THEN <<>>
  ELSE IF lo = hi THEN ss[lo]
  ELSE LET mid == (lo + hi) \div 2
       IN  FlattenRange(ss, lo, mid) \o FlattenRange(ss, mid + 1, hi)

Flatten(ss) == FlattenRange(ss, 1, Len(ss))

\* sep.join(parts)
Join(parts, sep) ==
  Flatten([i \in 1..Len(parts) |-> IF i = 1 THEN parts[i] ELSE sep \o parts[i]])

\* The characters of a text: words joined by " ", lines by "\n".
LineChars(line) == Join(line, <<" ">>)
TextChars(text) == Join([i \in 1..Len(text) |-> LineChars(text[i])], <<"\n">>)

\* text.split()
Words(text) == Flatten(text)

\* s[i:] starts with p
StartsAt(s, i, p) ==
  /\ i + Len(p) - 1 <= Len(s)
  /\ \A j \in 1..Len(p) : s[i + j - 1] = p[j]

\* p in s
Contains(s, p) == \E i \in 1..(Len(s) - Len(p) + 1) : StartsAt(s, i, p)

RECURSIVE Pow2(_)
Pow2(n) == IF n <= 0 THEN 1 ELSE 2 * Pow2(n - 1)

-----------------------------------------------------------------------------
(* stable_hash.  The bytes of str.encode("utf-8", errors="ignore"): a lone *)
(* surrogate (the character Surrogate) has no encoding and is dropped.     *)
(* Characters outside the table do not occur in the inputs.                *)

Surrogate == "<U+DC80>"

Utf8Bytes(c) ==
  CASE c = "\n" -> <<<<"0", "a">>>>
    [] c = " " -> <<<<"2", "0">>>>
    [] c = "0" -> <<<<"3", "0">>>>
    [] c = "1" -> <<<<"3", "1">>>>
    [] c = "2" -> <<<<"3", "2">>>>
    [] c = "3" -> <<<<"3", "3">>>>
    [] c = "4" -> <<<<"3", "4">>>>
    [] c = "5" -> <<<<"3", "5">>>>
    [] c = "6" -> <<<<"3", "6">>>>
    [] c = "7" -> <<<<"3", "7">>>>
    [] c = "8" -> <<<<"3", "8">>>>
    [] c = "9" -> <<<<"3", "9">>>>
    [] c = "a" -> <<<<"6", "1">>>>
    [] c = "b" -> <<<<"6", "2">>>>
    [] c = "c" -> <<<<"6", "3">>>>
    [] c = "d" -> <<<<"6", "4">>>>
    [] c = "e" -> <<<<"6", "5">>>>
    [] c = "f" -> <<<<"6", "6">>>>
    [] c = "g" -> <<<<"6", "7">>>>
    [] c = "h" -> <<<<"6", "8">>>>
    [] c = "i" -> <<<<"6", "9">>>>
    [] c = "j" -> <<<<"6", "a">>>>
    [] c = "k" -> <<<<"6", "b">>>>
    [] c = "l" -> <<<<"6", "c">>>>
    [] c = "m" -> <<<<"6", "d">>>>
    [] c = "n" -> <<<<"6", "e">>>>
    [] c = "o" -> <<<<"6", "f">>>>
    [] c = "p" -> <<<<"7", "0">>>>
    [] c = "q" -> <<<<"7", "1">>>>
    [] c = "r" -> <<<<"7", "2">>>>
    [] c = "s" -> <<<<"7", "3">>>>
    [] c = "t" -> <<<<"7", "4">>>>
    [] c = "u" -> <<<<"7", "5">>>>
    [] c = "v" -> <<<<"7", "6">>>>
    [] c = "w" -> <<<<"7", "7">>>>
    [] c = "x" -> <<<<"7", "8">>>>
    [] c = "y" -> <<<<"7", "9">>>>
    [] c = "z" -> <<<<"7", "a">>>>
    [] c = "A" -> <<<<"4", "1">>>>
    [] c = "B" -> <<<<"4", "2">>>>
    [] c = "C" -> <<<<"4", "3">>>>
    [] c = "D" -> <<<<"4", "4">>>>
    [] c = "E" -> <<<<"4", "5">>>>
    [] c = "F" -> <<<<"4", "6">>>>
    [] c = "G" -> <<<<"4", "7">>>>
    [] c = "H" -> <<<<"4", "8">>>>
    [] c = "I" -> <<<<"4", "9">>>>
    [] c = "J" -> <<<<"4", "a">>>>
    [] c = "K" -> <<<<"4", "b">>>>
    [] c = "L" -> <<<<"4", "c">>>>
    [] c = "M" -> <<<<"4", "d">>>>
    [] c = "N" -> <<<<"4", "e">>>>
    [] c = "O" -> <<<<"4", "f">>>>
    [] c = "P" -> <<<<"5", "0">>>>
    [] c = "Q" -> <<<<"5", "1">>>>
    [] c = "R" -> <<<<"5", "2">>>>
    [] c = "S" -> <<<<"5", "3">>>>
    [] c = "T" -> <<<<"5", "4">>>>
    [] c = "U" -> <<<<"5", "5">>>>
    [] c = "V" -> <<<<"5", "6">>>>
    [] c = "W" -> <<<<"5", "7">>>>
    [] c = "X" -> <<<<"5", "8">>>>
    [] c = "Y" -> <<<<"5", "9">>>>
    [] c = "Z" -> <<<<"5", "a">>>>
    [] c = "|" -> <<<<"7", "c">>>>
    [] c = "{" -> <<<<"7", "b">>>>
    [] c = "}" -> <<<<"7", "d">>>>
    [] c = ":" -> <<<<"3", "a">>>>
    [] c = "." -> <<<<"2", "e">>>>
    [] c = "/" -> <<<<"2", "f">>>>
    [] c = "-" -> <<<<"2", "d">>>>
    [] c = "_" -> <<<<"5", "f">>>>
    [] c = "a'" -> <<<<"c", "3">>, <<"a", "1">>>>
    [] c = "e'" -> <<<<"c", "3">>, <<"a", "9">>>>
    [] c = "i'" -> <<<<"c", "3">>, <<"a", "d">>>>
    [] c = "o'" -> <<<<"c", "3">>, <<"b", "3">>>>
    [] c = "u'" -> <<<<"c", "3">>, <<"b", "a">>>>
    [] c = "n~" -> <<<<"c", "3">>, <<"b", "1">>>>
    [] c = "..." -> <<<<"e", "2">>, <<"8", "0">>, <<"a", "6">>>>
    [] OTHER -> <<>>


encode_utf8_ignore(s) == Flatten([i \in 1..Len(s) |-> Utf8Bytes(s[i])])

\* hashlib.sha256(b).hexdigest(), taken as collision-free: an injective
\* rendering of the bytes into hexadecimal digits (the digest's width is not
\* kept).
sha256_hexdigest(bytes) == Flatten(bytes)

stable_hash(s) == sha256_hexdigest(encode_utf8_ignore(s))

-----------------------------------------------------------------------------
(* Python slices *)

Min(a, b) == IF a < b THEN a ELSE b
Max(a, b) == IF a > b THEN a ELSE b

\* The index a slice bound k stands for in a sequence of n elements.
SliceIndex(k, n) == IF k < 0 THEN Max(n + k, 0) ELSE Min(k, n)

\* s[:k]
SliceTo(s, k) == SubSeq(s, 1, SliceIndex(k, Len(s)))

\* s[k:]
SliceFrom(s, k) == SubSeq(s, SliceIndex(k, Len(s)) + 1, Len(s))

\* s[::step], step >= 1
SliceStep(s, step) ==
  [i \in 1..((Len(s) + step - 1) \div step) |-> s[(i - 1) * step + 1]]

-----------------------------------------------------------------------------
(* compress_chapter and sample_middle.  The words of a text are made of    *)
(* letters and digits, so that a regular expression between \b ... \b      *)
(* matches whole words.                                                    *)

Digits == {"0", "1", "2", "3", "4", "5", "6", "7", "8", "9"}
LowerLetters ==
  {"a", "b", "c", "d", "e", "f", "g", "h", "i", "j", "k", "l", "m", "n", "o",
   "p", "q", "r", "s", "t", "u", "v", "w", "x", "y", "z"}
UpperLetters ==
  {"A", "B", "C", "D", "E", "F", "G", "H", "I", "J", "K", "L", "M", "N", "O",
   "P", "Q", "R", "S", "T", "U", "V", "W", "X", "Y", "Z"}
LowerAccented == {"a'", "e'", "i'", "o'", "u'", "n~"}
UpperAccented == {"A'", "E'", "I'", "O'", "U'", "N~"}

\* \b\d+\b
IsNumberWord(w) == w # <<>> /\ \A i \in 1..Len(w) : w[i] \in Digits

\* \b(1[6-9]\d{2}|20\d{2})\b
IsYearWord(w) ==
  /\ Len(w) = 4
  /\ IsNumberWord(w)
  /\ \/ w[1] = "1" /\ w[2] \in {"6", "7", "8", "9"}
     \/ w[1] = "2" /\ w[2] = "0"

\* \b[A-ZAEIOUN(accented)][a-zaeioun(accented)]{2,}\b
IsProperWord(w) ==
  /\ Len(w) >= 3
  /\ w[1] \in UpperLetters \cup UpperAccented
  /\ \A i \in 2..Len(w) : w[i] \in LowerLetters \cup LowerAccented

\* The sum of the lengths of ws[lo..hi], by halves.
RECURSIVE SumLens(_, _, _)
SumLens(ws, lo, hi) ==
  IF lo > hi THEN 0
  ELSE IF lo = hi THEN Len(ws[lo])
  ELSE LET mid == (lo + hi) \div 2
       IN  SumLens(ws, lo, mid) + SumLens(ws, mid + 1, hi)

\* len(line)
LineLen(line) ==
  IF line = <<>> THEN 0 ELSE SumLens(line, 1, Len(line)) + Len(line) - 1

\* The sum of the lengths of the lines text[lo..hi], by halves.
RECURSIVE SumLineLens(_, _, _)
SumLineLens(text, lo, hi) ==
  IF lo > hi THEN 0
  ELSE IF lo = hi THEN LineLen(text[lo])
  ELSE LET mid == (lo + hi) \div 2
       IN  SumLineLens(text, lo, mid) + SumLineLens(text, mid + 1, hi)

\* len(text): the lines and the line breaks between them
TextLen(text) ==
  IF text = <<>> THEN 0 ELSE SumLineLens(text, 1, Len(text)) + Len(text) - 1

\* The words of line[:n].rstrip()
RECURSIVE PrefixWords(_, _)
PrefixWords(line, n) ==
  IF line = <<>> \/ n <= 0 THEN <<>>
  ELSE IF Len(Head(line)) >= n THEN <<SubSeq(Head(line), 1, n)>>
  ELSE <<Head(line)>> \o PrefixWords(Tail(line), n - Len(Head(line)) - 1)

\* line[:max_line_len].rstrip() + "..." (the ellipsis character)
TruncateLine(line, max_line_len) ==
  LET p == PrefixWords(line, max_line_len)
  IN  IF p = <<>> THEN << <<"...">> >>
      ELSE [p EXCEPT ![Len(p)] = @ \o <<"...">>]

SignalMinLen == 60

\* The for loop of compress_chapter over text.splitlines(), from line i on,
\* with the signal lines acc collected so far.
RECURSIVE SignalLines(_, _, _, _, _)
SignalLines(text, i, acc, max_signal_lines, max_line_len) ==
  IF i > Len(text) THEN acc
  ELSE
    LET line == text[i]
    IN  IF LineLen(line) < SignalMinLen
        THEN SignalLines(text, i + 1, acc, max_signal_lines, max_line_len)
        ELSE
          LET has_year == \E k \in 1..Len(line) : IsYearWord(line[k])
              has_number == \E k \in 1..Len(line) : IsNumberWord(line[k])
              has_proper == \E k \in 1..Len(line) : IsProperWord(line[k])
              kept == IF LineLen(line) > max_line_len
                      THEN TruncateLine(line, max_line_len)
                      ELSE line
              acc2 == IF has_year \/ has_number \/ has_proper
                      THEN Append(acc, kept)
                      ELSE acc
          IN  IF Len(acc2) >= max_signal_lines THEN acc2
              ELSE SignalLines(text, i + 1, acc2, max_signal_lines, max_line_len)

\* Whether "\n".join(lines) is the empty string.
IsEmptyText(lines) == lines = <<>> \/ lines = << <<>> >>

\* SelectSeq for an operator argument of two parameters
RECURSIVE LinesWithAtLeast(_, _)
LinesWithAtLeast(text, min_words) ==
  IF text = <<>> THEN <<>>
  ELSE (IF Len(Head(text)) >= min_words THEN <<Head(text)>> ELSE <<>>)
       \o LinesWithAtLeast(Tail(text), min_words)

sample_middle(text, every, max_samples, min_words) ==
  LET paragraphs == LinesWithAtLeast(text, min_words)
  IN  IF Len(paragraphs) <= max_samples THEN paragraphs
      ELSE SliceTo(SliceStep(paragraphs, every), max_samples)

SampleEvery == 12
SampleMax == 8
SampleMinWords == 40

MarkerInicio == << <<"[", "I", "N", "I", "C", "I", "O", "]">> >>
MarkerMedio == << <<"[", "M", "E", "D", "I", "O", "]">> >>
MarkerSenales == << <<"[", "S", "E", "N~", "A", "L", "E", "S", "]">> >>
MarkerFinal == << <<"[", "F", "I", "N", "A", "L", "]">> >>

UnchangedSlack == 250

compress_chapter(text, head_words, tail_words, max_signal_lines, max_line_len, include_middle) ==
  LET words == Words(text)
  IN  IF Len(words) <= head_words + tail_words + UnchangedSlack THEN text
      ELSE
        LET head == SliceTo(words, head_words)
            tail == SliceFrom(words, 0 - tail_words)
            signal == SignalLines(text, 1, <<>>, max_signal_lines, max_line_len)
            middle == IF include_middle
                      THEN sample_middle(text, SampleEvery, SampleMax,
                                         SampleMinWords)
                      ELSE <<>>
        IN  <<MarkerInicio, head>>
            \o (IF IsEmptyText(middle) THEN <<>>
                ELSE << <<>>, MarkerMedio >> \o middle)
            \o (IF IsEmptyText(signal) THEN <<>>
                ELSE << <<>>, MarkerSenales >> \o signal)
            \o << <<>>, MarkerFinal, tail >>

DefaultHeadWords == 320
DefaultTailWords == 320
DefaultMaxSignalLines == 18
DefaultMaxLineLen == 220

-----------------------------------------------------------------------------
(* Prompt files and rendering *)

S_title == <<"t", "i", "t", "l", "e">>
S_text == <<"t", "e", "x", "t">>

\* The index of the first "}" of t at or after i, 0 when there is none.
RECURSIVE FindClose(_, _)
FindClose(t, i) ==
  IF i > Len(t) THEN 0 ELSE IF t[i] = "}" THEN i ELSE FindClose(t, i + 1)

\* template.format(title=title, text=text) from position i on: "{{" and "}}"
\* are literal braces, "{title}" and "{text}" are replaced, any other field
\* raises KeyError or IndexError, a single brace raises ValueError.
RECURSIVE FormatFrom(_, _, _, _)
FormatFrom(t, i, title, text) ==
  IF i > Len(t) THEN [ok |-> TRUE, out |-> <<>>]
  ELSE IF t[i] = "{" /\ i < Len(t) /\ t[i + 1] = "{"
  THEN LET r == FormatFrom(t, i + 2, title, text)
       IN  [ok |-> r.ok, out |-> <<"{">> \o r.out]
  ELSE IF t[i] = "{"
  THEN LET j == FindClose(t, i + 1)
           name == SubSeq(t, i + 1, j - 1)
       IN  IF j = 0 \/ name \notin {S_title, S_text}
           THEN [ok |-> FALSE, out |-> <<>>]
           ELSE LET r == FormatFrom(t, j + 1, title, text)
                IN  [ok |-> r.ok,
                     out |-> (IF name = S_title THEN title ELSE text) \o r.out]
  ELSE IF t[i] = "}" /\ i < Len(t) /\ t[i + 1] = "}"
  THEN LET r == FormatFrom(t, i + 2, title, text)
       IN  [ok |-> r.ok, out |-> <<"}">> \o r.out]
  ELSE IF t[i] = "}" THEN [ok |-> FALSE, out |-> <<>>]
  ELSE LET r == FormatFrom(t, i + 1, title, text)
       IN  [ok |-> r.ok, out |-> <<t[i]>> \o r.out]

\* render_prompt(template, title=, text=): the text argument as characters
render_prompt(template, title, text) ==
  LET r == FormatFrom(template, 1, title, TextChars(text))
  IN  [ok |-> r.ok, out |-> Strip(r.out)]

\* The files of the prompts directory: name -> content.
PromptFiles ==
  [n \in {"p1", "p2", "p3"} |->
     IF n = "p1" THEN <<"{", "t", "e", "x", "t", "}">>
     ELSE IF n = "p2"
     THEN <<"{", "t", "i", "t", "l", "e", "}", ":", "{", "t", "e", "x", "t", "}">>
     ELSE <<"{", "b", "o", "o", "k", "}">>]

load_prompt_template(prompt_name) ==
  IF prompt_name \in DOMAIN PromptFiles
  THEN [ok |-> TRUE, out |-> PromptFiles[prompt_name]]
  ELSE [ok |-> FALSE, out |-> <<>>]

-----------------------------------------------------------------------------
(* DiskCache: one file per key *)

EmptyCache == [k \in {} |-> <<>>]

\* An Optional[str]
None == [some |-> FALSE, v |-> <<>>]
Some(s) == [some |-> TRUE, v |-> s]

\* DiskCache.get: the file's content, or None
DiskCache_get(c, key) == IF key \in DOMAIN c THEN Some(c[key]) ELSE None

\* DiskCache.set: open(path, "w") creates or truncates the file
DiskCache_set(c, key, value) ==
  [k \in DOMAIN c \cup {key} |-> IF k = key THEN value ELSE c[k]]

\* bool(x) of an Optional[str]
Truthy(x) == x.some /\ x.v # <<>>

-----------------------------------------------------------------------------
(* call_llm and call_llm_with_retry *)

\* What the endpoint may answer: the "response" text of a 2xx answer ...
RawResponses == { <<" ">>, <<"s", "\n">> }
\* ... or a failure of requests.post, raise_for_status or the JSON access.
Errors == {"ConnectionError", "HTTPError"}

IdleLlm ==
  [status |-> "idle", model |-> <<>>, prompt |-> <<>>, num_predict |-> 0,
   max_retries |-> 0, base_sleep |-> 0, attempt |-> 0, last_err |-> NoneVal,
   result |-> <<>>, wrapped |-> NoneVal, trace |-> <<>>]

\* The frame of call_llm_with_retry on entry: last_err = None, attempt = 0.
\* base_sleep is in half seconds.
call_llm_with_retry(model, prompt, num_predict, max_retries, base_sleep) ==
  [IdleLlm EXCEPT !.status = "running", !.model = model, !.prompt = prompt,
                  !.num_predict = num_predict, !.max_retries = max_retries,
                  !.base_sleep = base_sleep]

Ev(kind, n, s) == [ev |-> kind, n |-> n, s |-> s]

\* One pass of the for loop whose call_llm returns: the function returns
\* r.json()["response"].strip() at once.
LlmAfterOk(f, raw) ==
  [f EXCEPT !.status = "returned", !.result = Strip(raw),
            !.trace = Append(@, Ev("post", f.attempt, "ok"))]

\* A retry loop whose delay grows linearly, base_sleep * (attempt + 1): the
\* variant C3's backoff is told apart from.
LlmAfterFailLinear(f, e) ==
  [f EXCEPT !.last_err = e, !.attempt = @ + 1,
            !.trace = @ \o <<Ev("post", f.attempt, e),
                            Ev("sleep", f.base_sleep * (f.attempt + 1), "")>>]

\* One pass of the for loop whose call_llm raises e: last_err = e, then
\* time.sleep(base_sleep * 2 ** attempt).
LlmAfterFail(f, e) ==
  [f EXCEPT !.last_err = e, !.attempt = @ + 1,
            !.trace = @ \o <<Ev("post", f.attempt, e),
                            Ev("sleep", f.base_sleep * Pow2(f.attempt), "")>>]

\* range(max_retries) is exhausted: raise RuntimeError(...) from last_err
LlmAfterExhausted(f) == [f EXCEPT !.status = "raised", !.wrapped = f.last_err]

CallLlmOk ==
  /\ llm.status = "running"
  /\ llm.attempt < llm.max_retries
  /\ \E raw \in RawResponses : llm' = LlmAfterOk(llm, raw)
  /\ UNCHANGED <<mainVars, events, fnIn, fnOut>>

CallLlmFail ==
  /\ llm.status = "running"
  /\ llm.attempt < llm.max_retries
  /\ \E e \in Errors : llm' = LlmAfterFail(llm, e)
  /\ UNCHANGED <<mainVars, events, fnIn, fnOut>>

RetryExhausted ==
  /\ llm.status = "running"
  /\ llm.attempt >= llm.max_retries
  /\ llm' = LlmAfterExhausted(llm)
  /\ UNCHANGED <<mainVars, events, fnIn, fnOut>>

DefaultMaxRetries == 4
\* 1.5 s, in half seconds
DefaultBaseSleep == 3
SummaryNumPredict == 360

-----------------------------------------------------------------------------
(* Normalization: _norm *)

UpperSeq ==
  <<"A", "B", "C", "D", "E", "F", "G", "H", "I", "J", "K", "L", "M", "N", "O",
    "P", "Q", "R", "S", "T", "U", "V", "W", "X", "Y", "Z",
    "A'", "E'", "I'", "O'", "U'", "N~">>
LowerSeq ==
  <<"a", "b", "c", "d", "e", "f", "g", "h", "i", "j", "k", "l", "m", "n", "o",
    "p", "q", "r", "s", "t", "u", "v", "w", "x", "y", "z",
    "a'", "e'", "i'", "o'", "u'", "n~">>
AccentedSeq == <<"a'", "e'", "i'", "o'", "u'", "n~">>
BaseSeq == <<"a", "e", "i", "o", "u", "n">>

\* str.lower(), one character
LowerChar(c) ==
  IF \E i \in 1..Len(UpperSeq) : UpperSeq[i] = c
  THEN LowerSeq[CHOOSE i \in 1..Len(UpperSeq) : UpperSeq[i] = c]
  ELSE c

\* s.lower()
Lower(s) == [i \in 1..Len(s) |-> LowerChar(s[i])]

\* unicodedata.normalize("NFKD", c) without its combining characters (for a
\* lower-case character): an accented letter loses its accent, the ellipsis
\* becomes three dots.
Decompose(c) ==
  IF \E i \in 1..Len(AccentedSeq) : AccentedSeq[i] = c
  THEN <<BaseSeq[CHOOSE i \in 1..Len(AccentedSeq) : AccentedSeq[i] = c]>>
  ELSE IF c = "..." THEN <<".", ".", ".">>
  ELSE <<c>>

\* re.sub(r"\s+", " ", s)
CollapseSpaces(s) ==
  Flatten([i \in 1..Len(s) |->
             IF ~IsSpace(s[i]) THEN <<s[i]>>
             ELSE IF i > 1 /\ IsSpace(s[i - 1]) THEN <<>>
             ELSE <<" ">>])

norm(s) ==
  LET t == Lower(Strip(s))
  IN  CollapseSpaces(Flatten([i \in 1..Len(t) |-> Decompose(t[i])]))

-----------------------------------------------------------------------------
(* Paths inside the archive: posixpath *)

\* The index of the last c in s, 0 when there is none.
LastIndexOf(s, c) ==
  IF \E i \in 1..Len(s) : s[i] = c
  THEN CHOOSE i \in 1..Len(s) : s[i] = c /\ \A j \in (i + 1)..Len(s) : s[j] # c
  ELSE 0

\* The index of the first c in s, 0 when there is none.
FirstIndexOf(s, c) ==
  IF \E i \in 1..Len(s) : s[i] = c
  THEN CHOOSE i \in 1..Len(s) : s[i] = c /\ \A j \in 1..(i - 1) : s[j] # c
  ELSE 0

\* s.split(c)
RECURSIVE SplitOn(_, _)
SplitOn(s, c) ==
  LET i == FirstIndexOf(s, c)
  IN  IF i = 0 THEN <<s>>
      ELSE <<SubSeq(s, 1, i - 1)>> \o SplitOn(SubSeq(s, i + 1, Len(s)), c)

RECURSIVE RStripSlashes(_)
RStripSlashes(s) ==
  IF s # <<>> /\ s[Len(s)] = "/" THEN RStripSlashes(SubSeq(s, 1, Len(s) - 1))
  ELSE s

posixpath_dirname(p) ==
  LET head == SubSeq(p, 1, LastIndexOf(p, "/"))
  IN  IF head # <<>> /\ \E i \in 1..Len(head) : head[i] # "/"
      THEN RStripSlashes(head)
      ELSE head

posixpath_basename(p) == SubSeq(p, LastIndexOf(p, "/") + 1, Len(p))

posixpath_join(a, b) ==
  IF b # <<>> /\ b[1] = "/" THEN b
  ELSE IF a = <<>> \/ a[Len(a)] = "/" THEN a \o b
  ELSE a \o <<"/">> \o b

\* The loop of normpath over the components comps, new_comps collected so far.
RECURSIVE NormComps(_, _, _)
NormComps(comps, new_comps, initial_slashes) ==
  IF comps = <<>> THEN new_comps
  ELSE
    LET comp == Head(comps)
        rest == Tail(comps)
    IN  IF comp = <<>> \/ comp = <<".">>
        THEN NormComps(rest, new_comps, initial_slashes)
        ELSE IF \/ comp # <<".", ".">>
                \/ (initial_slashes = 0 /\ new_comps = <<>>)
                \/ (new_comps # <<>> /\ new_comps[Len(new_comps)] = <<".", ".">>)
        THEN NormComps(rest, Append(new_comps, comp), initial_slashes)
        ELSE IF new_comps # <<>>
        THEN NormComps(rest, SubSeq(new_comps, 1, Len(new_comps) - 1),
                       initial_slashes)
        ELSE NormComps(rest, new_comps, initial_slashes)

posixpath_normpath(path) ==
  IF path = <<>> THEN <<".">>
  ELSE
    LET initial_slashes ==
          IF path[1] # "/" THEN 0
          ELSE IF Len(path) >= 2 /\ path[2] = "/" /\ ~(Len(path) >= 3 /\ path[3] = "/")
          THEN 2
          ELSE 1
        joined == Join(NormComps(SplitOn(path, "/"), <<>>, initial_slashes), <<"/">>)
        out == [i \in 1..initial_slashes |-> "/"] \o joined
    IN  IF out = <<>> THEN <<".">> ELSE out

join_epub_path(base_dir, href) ==
  IF base_dir = <<>> THEN href
  ELSE posixpath_normpath(posixpath_join(base_dir, href))

-----------------------------------------------------------------------------
(* The keyword tables of extract.py, as Python reads them: adjacent string  *)
(* literals are one string.                                                 *)

NON_CHAPTER_KEYWORDS ==
  << <<"c", "o", "v", "e", "r">>, <<"p", "o", "r", "t", "a", "d", "a">>,
     <<"t", "i", "t", "l", "e">>, <<"t", "i'", "t", "u", "l", "o">>,
     <<"t", "i", "t", "u", "l", "o">>,
     <<"c", "o", "p", "y", "r", "i", "g", "h", "t">>,
     <<"d", "e", "r", "e", "c", "h", "o", "s">>,
     <<"d", "e", "d", "i", "c", "a", "t", "i", "o", "n">>,
     <<"d", "e", "d", "i", "c", "a", "t", "o", "r", "i", "a">>,
     <<"e", "p", "i", "g", "r", "a", "p", "h">>,
     <<"e", "p", "i'", "g", "r", "a", "f", "e">>,
     <<"e", "p", "i", "g", "r", "a", "f", "e">>,
     <<"p", "r", "e", "f", "a", "c", "e">>,
     <<"p", "r", "e", "f", "a", "c", "i", "o">>,
     <<"f", "o", "r", "e", "w", "o", "r", "d">>,
     <<"p", "r", "o'", "l", "o", "g", "o">>,
     <<"p", "r", "o", "l", "o", "g", "o">>,
     <<"i", "n", "t", "r", "o", "d", "u", "c", "t", "i", "o", "n">>,
     <<"i", "n", "t", "r", "o", "d", "u", "c", "c", "i", "o'", "n">>,
     <<"i", "n", "t", "r", "o", "d", "u", "c", "c", "i", "o", "n">>,
     <<"a", "c", "k", "n", "o", "w", "l", "e", "d", "g", "e", "m", "e", "n", "t", "s">>,
     <<"a", "c", "k", "n", "o", "w", "l", "e", "d", "g", "m", "e", "n", "t", "s">>,
     <<"a", "g", "r", "a", "d", "e", "c", "i", "m", "i", "e", "n", "t", "o", "s">>,
     <<"c", "o", "n", "t", "e", "n", "t", "s">>,
     <<"t", "a", "b", "l", "e", " ", "o", "f", " ", "c", "o", "n", "t", "e", "n", "t", "s">>,
     <<"I", "n", "d", "e", "x">>, <<"i'", "n", "d", "i", "c", "e">>,
     <<"i", "n", "d", "i", "c", "e">>, <<"s", "u", "m", "a", "r", "i", "o">>,
     <<"n", "o", "t", "e", "s">>, <<"n", "o", "t", "a", "s">>,
     <<"e", "n", "d", "n", "o", "t", "e", "s">>,
     <<"b", "i", "b", "l", "i", "o", "g", "r", "a", "p", "h", "y">>,
     <<"b", "i", "b", "l", "i", "o", "g", "r", "a", "f", "i'", "a">>,
     <<"b", "i", "b", "l", "i", "o", "g", "r", "a", "f", "i", "a">>,
     <<"r", "e", "f", "e", "r", "e", "n", "c", "e", "s">>,
     <<"r", "e", "f", "e", "r", "e", "n", "c", "i", "a", "s">>,
     <<"g", "l", "o", "s", "s", "a", "r", "y">>,
     <<"g", "l", "o", "s", "a", "r", "i", "o">>,
     <<"a", "p", "p", "e", "n", "d", "i", "x">>,
     <<"a", "p", "e'", "n", "d", "i", "c", "e">>,
     <<"a", "p", "e", "n", "d", "i", "c", "e">>, <<"a", "n", "e", "x", "o">>,
     <<"a", "f", "t", "e", "r", "w", "o", "r", "d">>,
     <<"e", "p", "i'", "l", "o", "g", "o">>,
     <<"e", "p", "i", "l", "o", "g", "o">>,
     <<"c", "o", "l", "o", "p", "h", "o", "n">>,
     <<"c", "o", "l", "o", "f", "o'", "n">>,
     <<"c", "o", "l", "o", "f", "o", "n">>,
     <<"c", "r", "e", "d", "i", "t", "s">>,
     <<"c", "r", "e'", "d", "i", "t", "o", "s">>,
     <<"c", "r", "e", "d", "i", "t", "o", "s">>,
     <<"r", "e", "c", "o", "n", "o", "c", "i", "m", "i", "e", "n", "t", "o", "s">> >>

TOC_KEYWORDS ==
  << <<"i", "n", "d", "i", "c", "e">>, <<"i'", "n", "d", "i", "c", "e">>,
     <<"I", "n", "d", "e", "x">>, <<"c", "o", "n", "t", "e", "n", "t", "s">>,
     <<"t", "a", "b", "l", "e", " ", "o", "f", " ", "c", "o", "n", "t", "e", "n", "t", "s">>,
     <<"s", "u", "m", "a", "r", "i", "o">> >>

NON_CHAPTER_PATH_HINTS ==
  << <<"c", "o", "v", "e", "r">>, <<"p", "o", "r", "t", "a", "d", "a">>,
     <<"t", "i", "t", "l", "e">>, <<"t", "i", "t", "u", "l", "o">>,
     <<"t", "o", "c">>, <<"c", "o", "n", "t", "e", "n", "t", "s">>,
     <<"n", "a", "v">>, <<"n", "c", "x">>,
     <<"c", "o", "p", "y", "r", "i", "g", "h", "t">>,
     <<"p", "r", "e", "f", "a", "c", "e">>,
     <<"f", "o", "r", "e", "w", "o", "r", "d">>,
     <<"i", "n", "t", "r", "o", "d", "u", "c", "t", "i", "o", "n">>,
     <<"p", "r", "o", "l", "o", "g", "u", "e">>,
     <<"e", "p", "i", "l", "o", "g", "u", "e">>,
     <<"a", "c", "k", "n", "o", "w", "l", "e", "d", "g">>,
     <<"a", "g", "r", "a", "d", "e">>,
     <<"e", "p", "i", "g", "r", "a", "p", "h">>,
     <<"e", "p", "i", "g", "r", "a", "f", "e">>,
     <<"e", "p", "i'", "g", "r", "a", "f", "e", "b", "i", "b", "l", "i", "o", "g", "r", "a", "p", "h">>,
     <<"b", "i", "b", "l", "i", "o", "g", "r", "a", "f">>,
     <<"n", "o", "t", "e", "s">>, <<"n", "o", "t", "a", "s">>,
     <<"d", "e", "d", "i", "c", "a", "t", "i", "o", "n", "a", "p", "p", "e", "n", "d", "i", "x">>,
     <<"a", "p", "e", "n", "d", "i", "c", "e">>,
     <<"a", "p", "e'", "n", "d", "i", "c", "e">>,
     <<"a", "n", "e", "x", "o">>, <<"g", "l", "o", "s", "s", "a", "r", "y">>,
     <<"g", "l", "o", "s", "a", "r", "i", "o">>,
     <<"r", "e", "c", "o", "n", "o", "c", "i", "m", "i", "e", "n", "t", "o", "s">> >>

COPYRIGHT_KEYWORDS ==
  << <<"r", "e", "s", "e", "r", "v", "a", "d", "o", "s", " ", "t", "o", "d", "o", "s", " ", "l", "o", "s", " ", "d", "e", "r", "e", "c", "h", "o", "s">>,
     <<"c", "o", "p", "y", "r", "i", "g", "h", "t">>, <<"i", "s", "b", "n">>,
     <<"d", "e", "p", "o", "s", "i", "t", "o", " ", "l", "e", "g", "a", "l">>,
     <<"d", "e", "p", "o'", "s", "i", "t", "o", " ", "l", "e", "g", "a", "l">>,
     <<"i", "m", "p", "r", "e", "s", "o", " ", "e", "n">>,
     <<"p", "r", "i", "n", "t", "e", "d", " ", "i", "n">>,
     <<"e", "d", "i", "t", "o", "r", "i", "a", "l">>,
     <<"d", "e", "r", "e", "c", "h", "o", "s">> >>

\* _norm(kw) for kw in a table
NormAll(table) == [k \in 1..Len(table) |-> norm(table[k])]

NonChapterKeywordsNorm == NormAll(NON_CHAPTER_KEYWORDS)
TocKeywordsNorm == NormAll(TOC_KEYWORDS)
NonChapterPathHintsNorm == NormAll(NON_CHAPTER_PATH_HINTS)
CopyrightKeywordsNorm == NormAll(COPYRIGHT_KEYWORDS)

looks_like_non_chapter(title) ==
  LET t == norm(title)
  IN  \E k \in 1..Len(NonChapterKeywordsNorm) :
        Contains(t, NonChapterKeywordsNorm[k])

looks_like_non_chapter_path(href, idref) ==
  LET blob == norm(href) \o <<" ">> \o norm(idref)
  IN  \E k \in 1..Len(NonChapterPathHintsNorm) :
        Contains(blob, NonChapterPathHintsNorm[k])

\* re.search(r"\.{8,}", line)
DotRun == 8
HasDotLeader(line) ==
  \E w \in 1..Len(line) :
    Contains(line[w], [i \in 1..DotRun |-> "."])

\* re.fullmatch(r"\d{1,4}", line)
NumericMaxLen == 4
IsNumericOnly(line) ==
  Len(line) = 1 /\ IsNumberWord(line[1]) /\ Len(line[1]) <= NumericMaxLen

\* sum(1 for ... if test): the number of TRUE entries of flags
CountTrue(flags) == Cardinality({i \in 1..Len(flags) : flags[i]})

TocTopLines == 60
TocScanLines == 300
TocMinLeaders == 8
TocMinNumeric == 8

\* The lines of a text are non-blank: a blank line has no words.
NonBlank(text) == SelectSeq(text, LAMBDA ln : ln # <<>>)

looks_like_toc(text) ==
  LET lines == NonBlank(text)
  IN  IF lines = <<>> THEN FALSE
      ELSE
        LET top_norm == norm(TextChars(SliceTo(lines, TocTopLines)))
            has_toc_word ==
              \E k \in 1..Len(TocKeywordsNorm) :
                Contains(top_norm, TocKeywordsNorm[k])
            scan == SliceTo(lines, TocScanLines)
            dot_leaders == CountTrue([i \in 1..Len(scan) |-> HasDotLeader(scan[i])])
            numeric_only == CountTrue([i \in 1..Len(scan) |-> IsNumericOnly(scan[i])])
        IN  /\ has_toc_word
            /\ dot_leaders >= TocMinLeaders
            /\ numeric_only >= TocMinNumeric

ImprintTopLines == 80
ImprintMinHits == 2

looks_like_copyright_or_imprint(text) ==
  LET top == norm(TextChars(NonBlank(SliceTo(text, ImprintTopLines))))
      hits == CountTrue([k \in 1..Len(CopyrightKeywordsNorm) |->
                           Contains(top, CopyrightKeywordsNorm[k])])
  IN  hits >= ImprintMinHits

\* A classifier whose length test is off by one (it accepts min_words - 1
\* words): the variant C6's bound is told apart from.
should_include_one_short(title, text, href, idref, min_words) ==
  IF Len(Words(text)) < min_words - 1 THEN FALSE
  ELSE IF looks_like_non_chapter(title) THEN FALSE
  ELSE IF looks_like_non_chapter_path(href, idref) THEN FALSE
  ELSE TRUE

should_include_chapter(title, text, href, idref, min_words) ==
  IF Len(Words(text)) < min_words THEN FALSE
  ELSE IF looks_like_non_chapter(title) THEN FALSE
  ELSE IF looks_like_non_chapter_path(href, idref) THEN FALSE
  ELSE TRUE

-----------------------------------------------------------------------------
(* Documents.  A content document is the sequence of its elements in       *)
(* document order, each with its tag, its class and id attributes and the  *)
(* words of its text (one line).                                           *)

El(tag, cls, id, txt) == [tag |-> tag, cls |-> cls, id |-> id, txt |-> txt]

DecomposedTags == {"script", "style", "nav", "header", "footer", "aside"}

\* _html_to_text: the text of the elements that are kept, one line each,
\* blank lines dropped.
html_to_text(raw) ==
  LET kept == SelectSeq(raw, LAMBDA e : e.tag \notin DecomposedTags /\ e.txt # <<>>)
  IN  [i \in 1..Len(kept) |-> kept[i].txt]

\* The first index whose entry of flags is TRUE, 0 when there is none.
FirstTrue(flags) ==
  IF \E i \in 1..Len(flags) : flags[i]
  THEN CHOOSE i \in 1..Len(flags) : flags[i] /\ \A j \in 1..(i - 1) : ~flags[j]
  ELSE 0

HeadingTokens ==
  << <<"h", "1">>, <<"h", "2">>, <<"h", "3">>, <<"t", "i", "t", "l", "e">>, <<"h", "e", "a", "d", "i", "n", "g">>, <<"c", "h", "a", "p", "t", "e", "r">> >>

IsSep(c) == c \in {"_", "-"} \/ IsSpace(c)

\* The first index at or after i of s that holds no digit (Len(s) + 1 when
\* the digits run to the end).
RECURSIVE SkipDigits(_, _)
SkipDigits(s, i) ==
  IF i <= Len(s) /\ s[i] \in Digits THEN SkipDigits(s, i + 1) ELSE i

\* re.search(r"(?:^|[_\-\s])s\d*h\d*(?:$|[_\-\s])", cls)
MatchesStyleHeading(cls) ==
  \E i \in 1..Len(cls) :
    /\ i = 1 \/ IsSep(cls[i - 1])
    /\ cls[i] = "s"
    /\ LET j == SkipDigits(cls, i + 1)
       IN  /\ j <= Len(cls)
           /\ cls[j] = "h"
           /\ LET k == SkipDigits(cls, j + 1)
              IN  k > Len(cls) \/ IsSep(cls[k])

\* re.search(r"(?:^|[_\-\s])h\d*(?:$|[_\-\s])", cls)
MatchesBareHeading(cls) ==
  \E i \in 1..Len(cls) :
    /\ i = 1 \/ IsSep(cls[i - 1])
    /\ cls[i] = "h"
    /\ LET k == SkipDigits(cls, i + 1)
       IN  k > Len(cls) \/ IsSep(cls[k])

\* " ".join(s) of a string s: its characters, a space between each two
JoinChars(s) == Join([i \in 1..Len(s) |-> <<s[i]>>], <<" ">>)

\* The parser is the XML one, which keeps the class attribute as one string,
\* so " ".join(cls_list) joins that string's characters.
looks_heading(el) ==
  LET cls == Lower(JoinChars(el.cls))
      el_id == Lower(el.id)
  IN  \/ \E t \in 1..Len(HeadingTokens) : Contains(cls, HeadingTokens[t])
      \/ \E t \in 1..Len(HeadingTokens) : Contains(el_id, HeadingTokens[t])
      \/ MatchesStyleHeading(cls)
      \/ MatchesBareHeading(cls)

CandidateLimit == 40
TitleMaxLen == 140

\* _extract_display_title_from_body
extract_display_title_from_body(raw) ==
  LET h == FirstTrue([i \in 1..Len(raw) |-> raw[i].tag \in {"h1", "h2", "h3"}])
      candidates ==
        SliceTo(SelectSeq(raw, LAMBDA e : e.tag \in {"p", "div"}), CandidateLimit)
      c == FirstTrue([i \in 1..Len(candidates) |->
                        /\ candidates[i].txt # <<>>
                        /\ LineLen(candidates[i].txt) <= TitleMaxLen
                        /\ looks_heading(candidates[i])])
  IN  IF h # 0 /\ raw[h].txt # <<>> THEN Some(LineChars(raw[h].txt))
      ELSE IF c # 0 THEN Some(LineChars(candidates[c].txt))
      ELSE None

\* soup.find("title"): t.get_text(strip=True) if t else None
document_title(raw) ==
  LET t == FirstTrue([i \in 1..Len(raw) |-> raw[i].tag = "title"])
  IN  IF t # 0 THEN Some(LineChars(raw[t].txt)) ELSE None

-----------------------------------------------------------------------------
(* The archive.  names is zf.namelist(); container is the state of          *)
(* META-INF/container.xml ("absent", "malformed", "no_rootfile" or "ok", and *)
(* then full_path is its rootfile's full-path); opf is the content of the    *)
(* package file, ncx of the navigation file, docs of the content documents.  *)

ContainerPath == <<"M", "E", "T", "A", "-", "I", "N", "F", "/", "c", "o", "n", "t", "a", "i", "n", "e", "r", ".", "x", "m", "l">>

Raised(e) == [ok |-> FALSE, err |-> e, path |-> <<>>]

\* _read_xml(zf, path) of a file whose content is well-formed or not: the
\* error it raises, "" when it returns.
read_xml(a, path, wellformed) ==
  IF path \notin a.names THEN "KeyError"
  ELSE IF ~wellformed THEN "XMLSyntaxError"
  ELSE ""

OpfCandidates == << <<"c", "o", "n", "t", "e", "n", "t", ".", "o", "p", "f">>, <<"O", "E", "B", "P", "S", "/", "c", "o", "n", "t", "e", "n", "t", ".", "o", "p", "f">>, <<"O", "P", "S", "/", "c", "o", "n", "t", "e", "n", "t", ".", "o", "p", "f">> >>

\* _parse_container_for_opf_path: only KeyError is caught.
parse_container_for_opf_path(a) ==
  LET e == read_xml(a, ContainerPath, a.container # "malformed")
      fallback ==
        FirstTrue([i \in 1..Len(OpfCandidates) |-> OpfCandidates[i] \in a.names])
  IN  IF e = "XMLSyntaxError" THEN Raised(e)
      ELSE IF e = "" /\ a.container = "ok" /\ a.full_path # <<>>
      THEN [ok |-> TRUE, err |-> "", path |-> a.full_path]
      ELSE IF fallback # 0
      THEN [ok |-> TRUE, err |-> "", path |-> OpfCandidates[fallback]]
      ELSE Raised("ValueError")

\* _parse_opf_metadata
parse_opf_metadata(opf) ==
  [title |-> IF opf.title = <<>> THEN None ELSE Some(Strip(opf.title)),
   authors |->
     LET cs == SelectSeq(opf.creators, LAMBDA c : Strip(c) # <<>>)
     IN  [i \in 1..Len(cs) |-> Strip(cs[i])]]

\* The ids of the manifest dict in insertion order.
RECURSIVE ManifestIds(_, _)
ManifestIds(items, seen) ==
  IF items = <<>> THEN seen
  ELSE LET id == Head(items).id
       IN  IF id = <<>> \/ \E i \in 1..Len(seen) : seen[i] = id
           THEN ManifestIds(Tail(items), seen)
           ELSE ManifestIds(Tail(items), Append(seen, id))

\* _parse_opf_manifest_spine: the manifest dict (ids in insertion order, the
\* last item of an id wins) and the spine's non-empty idrefs.
parse_opf_manifest_spine(opf) ==
  LET ids == ManifestIds(opf.manifest, <<>>)
      last(id) == CHOOSE i \in 1..Len(opf.manifest) :
                    /\ opf.manifest[i].id = id
                    /\ \A j \in (i + 1)..Len(opf.manifest) : opf.manifest[j].id # id
  IN  [ids |-> ids,
       item |-> [id \in {ids[i] : i \in 1..Len(ids)} |->
                   [href |-> opf.manifest[last(id)].href,
                    media_type |-> opf.manifest[last(id)].media_type]],
       spine_ids |-> SelectSeq(opf.spine, LAMBDA r : r # <<>>)]

EndsWith(s, suffix) ==
  Len(s) >= Len(suffix) /\ SubSeq(s, Len(s) - Len(suffix) + 1, Len(s)) = suffix

NcxMediaType == "application/x-dtbncx+xml"

\* The ncx_path of extract_chapters: the spine's toc item, else the first
\* manifest item that is typed or named as an NCX; None when there is none.
locate_ncx(opf, m, opf_dir) ==
  LET by_toc ==
        IF opf.toc # <<>> /\ opf.toc \in DOMAIN m.item /\ m.item[opf.toc].href # <<>>
        THEN Some(join_epub_path(opf_dir, m.item[opf.toc].href))
        ELSE None
      scan == FirstTrue([i \in 1..Len(m.ids) |->
                           \/ m.item[m.ids[i]].media_type = NcxMediaType
                           \/ EndsWith(Lower(m.item[m.ids[i]].href), <<".", "n", "c", "x">>)])
  IN  IF Truthy(by_toc) THEN by_toc
      ELSE IF scan # 0 THEN Some(join_epub_path(opf_dir, m.item[m.ids[scan]].href))
      ELSE None

\* The loop of _build_toc_title_map_from_ncx over the navPoints from i on:
\* the map as a sequence of (path, label) entries, a later one overriding.
RECURSIVE TocEntries(_, _, _)
TocEntries(points, i, opf_dir) ==
  IF i > Len(points) THEN <<>>
  ELSE
    LET np == points[i]
        src_no_frag == SplitOn(np.src, "#")[1]
    IN  (IF np.label = <<>> \/ np.src = <<>> THEN <<>>
         ELSE << [path |-> join_epub_path(opf_dir, src_no_frag),
                  label |-> Strip(np.label)] >>)
        \o TocEntries(points, i + 1, opf_dir)

\* _build_toc_title_map_from_ncx
build_toc_title_map_from_ncx(ncx, opf_dir) ==
  IF ~ncx.navmap THEN <<>> ELSE TocEntries(ncx.points, 1, opf_dir)

\* toc_title_map.get(path)
TocGet(entries, path) ==
  IF \E i \in 1..Len(entries) : entries[i].path = path
  THEN Some(entries[CHOOSE i \in 1..Len(entries) :
                      /\ entries[i].path = path
                      /\ \A j \in (i + 1)..Len(entries) : entries[j].path # path].label)
  ELSE None

HtmlMediaTypes == {"application/xhtml+xml", "text/html"}

\* media_type.lower() of the media types of the model
LowerMediaType(mt) == IF mt = "TEXT/HTML" THEN "text/html" ELSE mt

\* zf.read(path) of a content document
ReadDoc(a, path) == IF path \in DOMAIN a.docs THEN a.docs[path] ELSE <<>>

\* A title resolution that asks the document's title element before the
\* headings of the body: the order C12 excludes.
resolve_title_element_first(toc_title_map, raw, internal_path, idref) ==
  LET t1 == TocGet(toc_title_map, internal_path)
      t2 == IF Truthy(t1) THEN t1 ELSE document_title(raw)
      t3 == IF Truthy(t2) THEN t2 ELSE extract_display_title_from_body(raw)
  IN  IF Truthy(t3) THEN t3.v
      ELSE IF idref # <<>> THEN idref
      ELSE posixpath_basename(internal_path)

\* The title of a content item: the first non-empty of the TOC label, the
\* heading of the body, the document's title, the idref or file name.
resolve_title(toc_title_map, raw, internal_path, idref) ==
  LET t1 == TocGet(toc_title_map, internal_path)
      t2 == IF Truthy(t1) THEN t1 ELSE extract_display_title_from_body(raw)
      t3 == IF Truthy(t2) THEN t2 ELSE document_title(raw)
  IN  IF Truthy(t3) THEN t3.v
      ELSE IF idref # <<>> THEN idref
      ELSE posixpath_basename(internal_path)

Chapter(idref, href, title, text) ==
  [idref |-> idref, href |-> href, title |-> title, text |-> text]

\* A list that keeps one chapter per idref: the deduplication C5 excludes.
append_once(acc, ch) ==
  IF \E i \in 1..Len(acc) : acc[i].idref = ch.idref THEN acc ELSE Append(acc, ch)

\* chapters.append(ch)
append(acc, ch) == Append(acc, ch)

\* The for loop of extract_chapters over spine_ids from position i on, with
\* the chapters collected so far.
RECURSIVE ExtractLoop(_, _, _, _, _, _, _)
ExtractLoop(a, m, toc_title_map, opf_dir, min_words, i, acc) ==
  IF i > Len(m.spine_ids) THEN acc
  ELSE
    LET idref == m.spine_ids[i]
        next(acc2) ==
          ExtractLoop(a, m, toc_title_map, opf_dir, min_words, i + 1, acc2)
    IN  IF idref \notin DOMAIN m.item THEN next(acc)
        ELSE
          LET href == m.item[idref].href
              media_type == LowerMediaType(m.item[idref].media_type)
              internal_path == join_epub_path(opf_dir, href)
          IN  IF media_type \notin HtmlMediaTypes THEN next(acc)
              ELSE IF internal_path \notin a.names THEN next(acc)
              ELSE
                LET raw == ReadDoc(a, internal_path)
                    text == html_to_text(raw)
                    title_guess ==
                      resolve_title(toc_title_map, raw, internal_path, idref)
                IN  IF looks_like_toc(text) THEN next(acc)
                    ELSE IF looks_like_copyright_or_imprint(text) THEN next(acc)
                    ELSE IF ~should_include_chapter(title_guess, text,
                                                    internal_path, idref, min_words)
                    THEN next(acc)
                    ELSE next(append(acc, Chapter(idref, internal_path,
                                                  title_guess, text)))

\* extract_chapters raising e while opening the archive ("open"), locating
\* the package file ("locate"), reading it ("descriptor") or reading the
\* navigation file ("navigation").
Failed(stage, e) ==
  [ok |-> FALSE, stage |-> stage, err |-> e, chapters |-> <<>>, toc_title_map |-> <<>>,
   metadata |-> [title |-> None, authors |-> <<>>, opf_path |-> <<>>,
                 ncx_path |-> None, chapter_count |-> 0]]

\* extract_chapters(epub_path, min_words) on the archive a at epub_path
extract_chapters(a, min_words) ==
  IF ~a.zip_ok THEN Failed("open", "BadZipFile")
  ELSE
    LET loc == parse_container_for_opf_path(a)
    IN  IF ~loc.ok THEN Failed("locate", loc.err)
        ELSE
          LET opf_path == loc.path
              opf_dir == posixpath_dirname(opf_path)
              e1 == read_xml(a, opf_path, a.opf.wellformed)
          IN  IF e1 # "" THEN Failed("descriptor", e1)
              ELSE
                LET meta == parse_opf_metadata(a.opf)
                    m == parse_opf_manifest_spine(a.opf)
                    ncx_path == locate_ncx(a.opf, m, opf_dir)
                    has_ncx == Truthy(ncx_path) /\ ncx_path.v \in a.names
                    e2 == IF has_ncx
                          THEN read_xml(a, ncx_path.v, a.ncx.wellformed)
                          ELSE ""
                IN  IF e2 # "" THEN Failed("navigation", e2)
                    ELSE
                      LET toc_title_map ==
                            IF has_ncx
                            THEN build_toc_title_map_from_ncx(a.ncx, opf_dir)
                            ELSE <<>>
                          chs == ExtractLoop(a, m, toc_title_map, opf_dir,
                                             min_words, 1, <<>>)
                      IN  [ok |-> TRUE, stage |-> "", err |-> "", chapters |-> chs,
                           toc_title_map |-> toc_title_map,
                           metadata |->
                             [title |-> meta.title, authors |-> meta.authors,
                              opf_path |-> opf_path, ncx_path |-> ncx_path,
                              chapter_count |-> Len(chs)]]

-----------------------------------------------------------------------------
(* Archives: a library of content items, the ways the package file is      *)
(* located and the ways the navigation file is present.                    *)

P(txt) == El("p", <<>>, <<>>, txt)

\* A printed table of contents: its heading, eight dot-leader lines and
\* eight page numbers.
TocDoc ==
  << El("h1", <<>>, <<>>, << <<"C", "o", "n", "t", "e", "n", "t", "s">> >>) >>
  \o [i \in 1..8 |-> P(<< <<"P", "a", "r", "t">>, <<".", ".", ".", ".", ".", ".", ".", ".">> >>)]
  \o [i \in 1..8 |-> P(<< <<"1">> >>)]

\* The content documents by href.
DocOf(href) ==
  CASE href = <<"c", "1", ".", "x", "h", "t", "m", "l">> ->
         << El("h1", <<>>, <<>>, << <<"O", "n", "e">> >>), P(<< <<"x">>, <<"y">> >>) >>
    [] href = <<"c", "2", ".", "x", "h", "t", "m", "l">> ->
         << El("p", <<"s", "2", "h">>, <<>>, << <<"T", "w", "o">> >>), P(<< <<"z">> >>),
            El("nav", <<>>, <<>>, << <<"m", "e", "n", "u">> >>) >>
    [] href = <<"w", "1", ".", "x", "h", "t", "m", "l">> -> << El("title", <<>>, <<>>, << <<"S", "o", "l", "o">> >>) >>
    [] href = <<"u", "p", ".", "x", "h", "t", "m", "l">> ->
         << El("h2", <<>>, <<>>, <<>>), El("div", <<>>, <<"H", "e", "a", "d", "i", "n", "g">>, << <<"U", "p">> >>),
            P(<< <<"u">>, <<"v">> >>) >>
    [] href = <<"k", "w", ".", "x", "h", "t", "m", "l">> ->
         << El("h1", <<>>, <<>>, << <<"N", "o", "t", "e", "s">> >>), P(<< <<"k">>, <<"l">> >>) >>
    [] href = <<"c", "o", "v", "e", "r", ".", "x", "h", "t", "m", "l">> -> << P(<< <<"a">>, <<"b">>, <<"c">> >>) >>
    [] href = <<"l", "i", "s", "t", ".", "x", "h", "t", "m", "l">> -> TocDoc
    [] href = <<"l", "e", "g", "a", "l", ".", "x", "h", "t", "m", "l">> ->
         << P(<< <<"C", "o", "p", "y", "r", "i", "g", "h", "t">>, <<"x">> >>), P(<< <<"I", "S", "B", "N">>, <<"1">> >>) >>
    [] OTHER -> <<>>

Item(id, href, media_type) == [id |-> id, href |-> href, media_type |-> media_type]

Xhtml == "application/xhtml+xml"

\* The manifest items of every archive: the id c2 is declared twice, the
\* file of gone is not in the archive, pic is an image.
ContentItems ==
  << Item(<<"c", "1">>, <<"c", "1", ".", "x", "h", "t", "m", "l">>, Xhtml),
     Item(<<"c", "2">>, <<"o", "l", "d", ".", "x", "h", "t", "m", "l">>, Xhtml),
     Item(<<"c", "2">>, <<"c", "2", ".", "x", "h", "t", "m", "l">>, Xhtml),
     Item(<<"e">>, <<"e", ".", "x", "h", "t", "m", "l">>, Xhtml),
     Item(<<"w", "1">>, <<"w", "1", ".", "x", "h", "t", "m", "l">>, "text/html"),
     Item(<<"u", "p">>, <<"u", "p", ".", "x", "h", "t", "m", "l">>, "TEXT/HTML"),
     Item(<<"k", "w">>, <<"k", "w", ".", "x", "h", "t", "m", "l">>, Xhtml),
     Item(<<"c", "v">>, <<"c", "o", "v", "e", "r", ".", "x", "h", "t", "m", "l">>, Xhtml),
     Item(<<"l", "i", "s", "t">>, <<"l", "i", "s", "t", ".", "x", "h", "t", "m", "l">>, Xhtml),
     Item(<<"l", "e", "g", "a", "l">>, <<"l", "e", "g", "a", "l", ".", "x", "h", "t", "m", "l">>, Xhtml),
     Item(<<"p", "i", "c">>, <<"p", "i", "c", ".", "j", "p", "g">>, "image/jpeg"),
     Item(<<"g", "o", "n", "e">>, <<"g", "o", "n", "e", ".", "x", "h", "t", "m", "l">>, Xhtml),
     Item(<<>>, <<"a", "n", "o", "n", ".", "x", "h", "t", "m", "l">>, Xhtml) >>

PresentHrefs ==
  { <<"c", "1", ".", "x", "h", "t", "m", "l">>, <<"c", "2", ".", "x", "h", "t", "m", "l">>, <<"e", ".", "x", "h", "t", "m", "l">>, <<"w", "1", ".", "x", "h", "t", "m", "l">>, <<"u", "p", ".", "x", "h", "t", "m", "l">>,
    <<"k", "w", ".", "x", "h", "t", "m", "l">>, <<"c", "o", "v", "e", "r", ".", "x", "h", "t", "m", "l">>, <<"l", "i", "s", "t", ".", "x", "h", "t", "m", "l">>, <<"l", "e", "g", "a", "l", ".", "x", "h", "t", "m", "l">>, <<"p", "i", "c", ".", "j", "p", "g">> }

\* How the package file is found: the state of container.xml, the path it
\* names, the package files of the archive, the directory of the content
\* documents.
Loc(zip_ok, container, full_path, opfs, wellformed, dir) ==
  [zip_ok |-> zip_ok, container |-> container, full_path |-> full_path,
   opfs |-> opfs, wellformed |-> wellformed, dir |-> dir]

LocOk ==
  Loc(TRUE, "ok", <<"O", "E", "B", "P", "S", "/", "c", "o", "n", "t", "e", "n", "t", ".", "o", "p", "f">>, { <<"O", "E", "B", "P", "S", "/", "c", "o", "n", "t", "e", "n", "t", ".", "o", "p", "f">> }, TRUE, <<"O", "E", "B", "P", "S">>)

LocCases ==
  { LocOk,
    Loc(TRUE, "ok", <<"c", "o", "n", "t", "e", "n", "t", ".", "o", "p", "f">>, { <<"c", "o", "n", "t", "e", "n", "t", ".", "o", "p", "f">> }, TRUE, <<>>),
    Loc(TRUE, "ok", <<"O", "E", "B", "P", "S", "/", "c", "o", "n", "t", "e", "n", "t", ".", "o", "p", "f">>, {}, TRUE, <<"O", "E", "B", "P", "S">>),
    Loc(TRUE, "ok", <<"O", "E", "B", "P", "S", "/", "c", "o", "n", "t", "e", "n", "t", ".", "o", "p", "f">>, { <<"O", "E", "B", "P", "S", "/", "c", "o", "n", "t", "e", "n", "t", ".", "o", "p", "f">> }, FALSE, <<"O", "E", "B", "P", "S">>),
    Loc(TRUE, "ok", <<>>, { <<"O", "P", "S", "/", "c", "o", "n", "t", "e", "n", "t", ".", "o", "p", "f">> }, TRUE, <<"O", "P", "S">>),
    Loc(TRUE, "no_rootfile", <<>>, { <<"O", "E", "B", "P", "S", "/", "c", "o", "n", "t", "e", "n", "t", ".", "o", "p", "f">> }, TRUE, <<"O", "E", "B", "P", "S">>),
    Loc(TRUE, "absent", <<>>, { <<"O", "E", "B", "P", "S", "/", "c", "o", "n", "t", "e", "n", "t", ".", "o", "p", "f">>, <<"O", "P", "S", "/", "c", "o", "n", "t", "e", "n", "t", ".", "o", "p", "f">> }, TRUE,
        <<"O", "E", "B", "P", "S">>),
    Loc(TRUE, "absent", <<>>, { <<"b", "o", "o", "k", ".", "o", "p", "f">> }, TRUE, <<>>),
    Loc(TRUE, "malformed", <<>>, { <<"O", "E", "B", "P", "S", "/", "c", "o", "n", "t", "e", "n", "t", ".", "o", "p", "f">> }, TRUE, <<"O", "E", "B", "P", "S">>),
    Loc(TRUE, "malformed", <<>>, {}, TRUE, <<>>),
    Loc(FALSE, "absent", <<>>, {}, TRUE, <<>>) }

\* The navigation file: the spine's toc attribute, its manifest item (none
\* when the id is empty), whether the file is in the archive, and its content.
Nav(toc, item, present, wellformed, navmap) ==
  [toc |-> toc, item |-> item, present |-> present, wellformed |-> wellformed,
   navmap |-> navmap]

NoItem == Item(<<>>, <<>>, "")
NcxItem == Item(<<"n", "c", "x">>, <<"t", "o", "c", ".", "n", "c", "x">>, NcxMediaType)

NavNone == Nav(<<>>, NoItem, FALSE, TRUE, TRUE)
NavByToc == Nav(<<"n", "c", "x">>, Item(<<"n", "c", "x">>, <<"t", "o", "c", ".", "n", "c", "x">>, "text/xml"), TRUE, TRUE, TRUE)
NavMalformed == Nav(<<"n", "c", "x">>, NcxItem, TRUE, FALSE, TRUE)
NavAbsent == Nav(<<"n", "c", "x">>, NcxItem, FALSE, TRUE, TRUE)

NcxCases ==
  { NavNone, NavByToc, NavMalformed, NavAbsent,
    Nav(<<>>, NcxItem, TRUE, TRUE, TRUE),
    Nav(<<"n", "o", "p", "e">>, Item(<<"n">>, <<"T", "O", "C", ".", "N", "C", "X">>, "text/xml"), TRUE, TRUE, TRUE),
    Nav(<<>>, NcxItem, TRUE, FALSE, TRUE),
    Nav(<<"n", "c", "x">>, NcxItem, TRUE, TRUE, FALSE) }

NavPoint(label, src) == [label |-> label, src |-> src]

\* The navPoints of every navigation file: a label for c1 (with a
\* fragment), a blank label for c2, a point without a label, one without a
\* target, and a label for w1 that is a non-chapter title.
NavPoints ==
  << NavPoint(<<" ", "F", "i", "r", "s", "t", " ">>, <<"c", "1", ".", "x", "h", "t", "m", "l", "#", "a">>),
     NavPoint(<<" ", " ">>, <<"c", "2", ".", "x", "h", "t", "m", "l">>),
     NavPoint(<<>>, <<"u", "p", ".", "x", "h", "t", "m", "l">>),
     NavPoint(<<"L", "o", "s", "t">>, <<>>),
     NavPoint(<<"I", "n", "d", "e", "x">>, <<".", "/", "w", "1", ".", "x", "h", "t", "m", "l">>) >>

\* The archive with the package file located as loc says, the navigation
\* file as nav says, and the given spine.
Archive(loc, nav, spine) ==
  LET ncx_href == nav.item.href
      files == PresentHrefs \cup (IF nav.present THEN {ncx_href} ELSE {})
  IN  [zip_ok |-> loc.zip_ok,
       names |->
         (IF loc.container = "absent" THEN {} ELSE {ContainerPath})
         \cup loc.opfs
         \cup { join_epub_path(loc.dir, h) : h \in files },
       container |-> loc.container,
       full_path |-> loc.full_path,
       opf |-> [wellformed |-> loc.wellformed,
                title |-> <<" ", "A", " ", "B", "o", "o", "k", " ">>,
                creators |-> << <<"A", "n", "n">>, <<" ">>, <<" ", "B", "o", "b">> >>,
                manifest |->
                  ContentItems \o (IF nav.item = NoItem THEN <<>> ELSE <<nav.item>>),
                spine |-> spine,
                toc |-> nav.toc],
       ncx |-> [wellformed |-> nav.wellformed, navmap |-> nav.navmap,
                points |-> NavPoints],
       docs |-> [p \in { join_epub_path(loc.dir, h) : h \in PresentHrefs } |->
                   DocOf(CHOOSE h \in PresentHrefs : join_epub_path(loc.dir, h) = p)]]

MaxSpine == 3
MaxMinWords == 3

\* The idrefs the spines are drawn from; zz is not in the manifest.
SpineIds == { <<"c", "1">>, <<"c", "2">>, <<"e">>, <<"w", "1">>, <<"z", "z">> }

Spines == UNION { [1..n -> SpineIds] : n \in 0..MaxSpine }

\* A spine over every item of the library.
FullSpine ==
  << <<"c", "v">>, <<"c", "1">>, <<"l", "i", "s", "t">>, <<"u", "p">>, <<>>, <<"l", "e", "g", "a", "l">>, <<"c", "2">>, <<"g", "o", "n", "e">>, <<"k", "w">>, <<"e">>,
     <<"c", "1">>, <<"p", "i", "c">>, <<"w", "1">>, <<"z", "z">> >>

Archives ==
  { Archive(loc, nav, FullSpine) : loc \in LocCases, nav \in NcxCases }
  \cup { Archive(LocOk, nav, spine) : nav \in {NavNone, NavByToc}, spine \in Spines }

-----------------------------------------------------------------------------
(* extract_chapters on its own *)

\* The .epub files main is run on.
EpubFile(book) ==
  CASE book = "two" -> Archive(LocOk, NavNone, << <<"c", "1">>, <<"c", "2">> >>)
    [] book = "dup" -> Archive(LocOk, NavByToc, << <<"c", "1">>, <<"p", "i", "c">>, <<"c", "1">> >>)
    [] book = "bad" -> Archive(LocOk, NavMalformed, << <<"c", "1">>, <<"c", "2">> >>)

Books == {"two", "dup", "bad"}
MinWordsArgs == {1}

-----------------------------------------------------------------------------
(* summarize_chapter *)

Bar == <<"|">>

\* A cache key that also holds the compression flag of the run: the key C14
\* excludes.
cache_key_with_flag(model, prompt_template_, title, text) ==
  stable_hash(model \o Bar \o stable_hash(prompt_template_) \o Bar \o title
              \o Bar \o stable_hash(TextChars(text))
              \o Bar \o (IF args.compress THEN <<"1">> ELSE <<"0">>))

\* The cache key of summarize_chapter
cache_key(model, prompt_template_, title, text) ==
  stable_hash(model \o Bar \o stable_hash(prompt_template_) \o Bar \o title
              \o Bar \o stable_hash(TextChars(text)))

\* The text summarize_chapter renders into the prompt
prompt_text(text, compress) ==
  IF compress
  THEN compress_chapter(text, DefaultHeadWords, DefaultTailWords,
                        DefaultMaxSignalLines, DefaultMaxLineLen, TRUE)
  ELSE text

NoCur == [key |-> <<>>, title |-> <<>>, text |-> <<>>, compress |-> FALSE]

\* A completed call of summarize_chapter: its arguments, how many times it
\* invoked the generation client, how it ended and what it returned.
CallRecord(ch, gens, outcome, result) ==
  [model |-> args.model, template |-> prompt_template, title |-> ch.title,
   text |-> ch.text, compress |-> args.compress, gens |-> gens,
   outcome |-> outcome, result |-> result]

Push(cs, c) == IF Len(cs) < 2 THEN Append(cs, c) ELSE <<cs[2], c>>

\* summarize_chapter on a cache hit: the cached value is returned; main
\* appends it and goes on with the next chapter.
SummarizeHit ==
  /\ pc = "loop"
  /\ idx <= Len(chapters)
  /\ LET ch == chapters[idx]
         key == cache_key(args.model, prompt_template, ch.title, ch.text)
         cached == DiskCache_get(cache, key)
     IN  /\ Truthy(cached)
         /\ chapter_summaries' =
              Append(chapter_summaries, [title |-> ch.title, summary |-> cached.v])
         /\ calls' = Push(calls, CallRecord(ch, 0, "returned", cached.v))
         /\ events' = Append(events, Ev("hit", idx, ""))
  /\ idx' = idx + 1
  /\ UNCHANGED <<pc, args, chapters, prompt_template, cache, llm, cur, run,
                 fnIn, fnOut>>

\* summarize_chapter on a cache miss, up to the call of call_llm_with_retry.
SummarizeMiss ==
  /\ pc = "loop"
  /\ idx <= Len(chapters)
  /\ LET ch == chapters[idx]
         key == cache_key(args.model, prompt_template, ch.title, ch.text)
         cached == DiskCache_get(cache, key)
         prompt == render_prompt(prompt_template, ch.title,
                                 prompt_text(ch.text, args.compress))
     IN  /\ ~Truthy(cached)
         /\ prompt.ok
         /\ cur' = [key |-> key, title |-> ch.title, text |-> ch.text,
                    compress |-> args.compress]
         /\ llm' = call_llm_with_retry(args.model, prompt.out, SummaryNumPredict,
                                       DefaultMaxRetries, DefaultBaseSleep)
  /\ events' = Append(events, Ev("gen", idx, ""))
  /\ pc' = "llm"
  /\ UNCHANGED <<args, chapters, prompt_template, idx, chapter_summaries, cache,
                 calls, run, fnIn, fnOut>>

\* summarize_chapter on a cache miss whose template does not render: the
\* exception of str.format leaves summarize_chapter and main.
SummarizeRenderFails ==
  /\ pc = "loop"
  /\ idx <= Len(chapters)
  /\ LET ch == chapters[idx]
         key == cache_key(args.model, prompt_template, ch.title, ch.text)
         cached == DiskCache_get(cache, key)
         prompt == render_prompt(prompt_template, ch.title,
                                 prompt_text(ch.text, args.compress))
     IN  /\ ~Truthy(cached)
         /\ ~prompt.ok
         /\ calls' = Push(calls, CallRecord(ch, 0, "raised", <<>>))
  /\ events' = Append(events, Ev("fail", idx, "render"))
  /\ pc' = "failed"
  /\ UNCHANGED <<args, chapters, prompt_template, idx, chapter_summaries, cache,
                 llm, cur, run, fnIn, fnOut>>

\* call_llm_with_retry returned: cache.set(key, summary); return summary.
SummarizeStore ==
  /\ pc = "llm"
  /\ llm.status = "returned"
  /\ cache' = DiskCache_set(cache, cur.key, llm.result)
  /\ chapter_summaries' =
       Append(chapter_summaries, [title |-> cur.title, summary |-> llm.result])
  /\ calls' = Push(calls, CallRecord(chapters[idx], 1, "returned", llm.result))
  /\ idx' = idx + 1
  /\ llm' = IdleLlm
  /\ cur' = NoCur
  /\ pc' = "loop"
  /\ UNCHANGED <<args, chapters, prompt_template, events, run, fnIn, fnOut>>

\* A main that skips the chapter whose generation failed and goes on with
\* the next one: the policy C4 excludes.
SummarizeSkip ==
  /\ pc = "llm"
  /\ llm.status = "raised"
  /\ calls' = Push(calls, CallRecord(chapters[idx], 1, "raised", <<>>))
  /\ events' = Append(events, Ev("fail", idx, "generation"))
  /\ llm' = IdleLlm
  /\ cur' = NoCur
  /\ idx' = idx + 1
  /\ pc' = "loop"
  /\ UNCHANGED <<args, chapters, prompt_template, chapter_summaries, cache,
                 run, fnIn, fnOut>>

\* call_llm_with_retry raised: the RuntimeError leaves summarize_chapter and
\* main.
SummarizeRaise ==
  /\ pc = "llm"
  /\ llm.status = "raised"
  /\ calls' = Push(calls, CallRecord(chapters[idx], 1, "raised", <<>>))
  /\ events' = Append(events, Ev("fail", idx, "generation"))
  /\ llm' = IdleLlm
  /\ cur' = NoCur
  /\ pc' = "failed"
  /\ UNCHANGED <<args, chapters, prompt_template, idx, chapter_summaries, cache,
                 run, fnIn, fnOut>>

-----------------------------------------------------------------------------
(* main *)

Models == { <<"m">>, <<"q">> }
PromptArgs == {"p1", "p3", "p0"}

ArgSets ==
  [book : Books, min_words : MinWordsArgs, model : Models, prompt : PromptArgs,
   compress : BOOLEAN]

\* metadata, chapters = extract_chapters(args.input_epub, args.min_words)
MainExtract ==
  /\ pc = "extract"
  /\ LET r == extract_chapters(EpubFile(args.book), args.min_words)
     IN  IF r.ok
         THEN /\ chapters' = r.chapters
              /\ pc' = "load_prompt"
              /\ events' = events
         ELSE /\ chapters' = <<>>
              /\ pc' = "failed"
              /\ events' = Append(events, Ev("fail", 0, "extract"))
  /\ UNCHANGED <<args, prompt_template, idx, chapter_summaries, cache, llm, cur,
                 calls, run, fnIn, fnOut>>

\* cache = DiskCache(...); prompt_template = load_prompt_template(args.prompt)
MainLoadPrompt ==
  /\ pc = "load_prompt"
  /\ LET r == load_prompt_template(args.prompt)
     IN  IF r.ok
         THEN /\ prompt_template' = r.out
              /\ idx' = 1
              /\ pc' = "loop"
              /\ events' = events
         ELSE /\ prompt_template' = <<>>
              /\ idx' = 0
              /\ pc' = "failed"
              /\ events' = Append(events, Ev("fail", 0, "prompt"))
  /\ UNCHANGED <<args, chapters, chapter_summaries, cache, llm, cur, calls, run,
                 fnIn, fnOut>>

\* The loop is over: build_summary_epub(metadata, chapter_summaries, ...)
MainBuild ==
  /\ pc = "loop"
  /\ idx > Len(chapters)
  /\ events' = Append(events, Ev("build", Len(chapter_summaries), ""))
  /\ pc' = "done"
  /\ UNCHANGED <<args, chapters, prompt_template, idx, chapter_summaries, cache,
                 llm, cur, calls, run, fnIn, fnOut>>

MaxRuns == 2

\* The command is started again on the same book and prompt, with any model
\* and compression flag: a new process, the cache directory as the earlier
\* runs left it.
Rerun ==
  /\ pc \in {"done", "failed"}
  /\ run < MaxRuns
  /\ run' = run + 1
  /\ \E m \in Models, c \in BOOLEAN :
       args' = [args EXCEPT !.model = m, !.compress = c]
  /\ pc' = "extract"
  /\ chapters' = <<>>
  /\ prompt_template' = <<>>
  /\ idx' = 0
  /\ chapter_summaries' = <<>>
  /\ events' = <<>>
  /\ UNCHANGED <<cache, llm, cur, calls, fnIn, fnOut>>

Init ==
  /\ pc = "extract"
  /\ args \in ArgSets
  /\ chapters = <<>>
  /\ prompt_template = <<>>
  /\ idx = 0
  /\ chapter_summaries = <<>>
  /\ cache = EmptyCache
  /\ llm = IdleLlm
  /\ cur = NoCur
  /\ events = <<>>
  /\ calls = <<>>
  /\ run = 1
  /\ fnIn = NoneVal
  /\ fnOut = NoneVal

Next ==
  \/ MainExtract
  \/ MainLoadPrompt
  \/ SummarizeHit
  \/ SummarizeMiss
  \/ SummarizeRenderFails
  \/ CallLlmOk
  \/ CallLlmFail
  \/ RetryExhausted
  \/ SummarizeStore
  \/ SummarizeRaise
  \/ MainBuild
  \/ Rerun

Spec == Init /\ [][Next]_vars

-----------------------------------------------------------------------------
(* call_llm_with_retry on its own: any max_retries and base_sleep *)

MaxRetriesArg == 4
MaxBaseSleep == 3

\* The variables of main, for a specification that does not run main.
MainAt(p) ==
  /\ pc = p
  /\ args = [book |-> "", min_words |-> 0, model |-> <<>>, prompt |-> "",
             compress |-> FALSE]
  /\ chapters = <<>>
  /\ prompt_template = <<>>
  /\ idx = 0
  /\ chapter_summaries = <<>>
  /\ cache = EmptyCache
  /\ cur = NoCur
  /\ events = <<>>
  /\ calls = <<>>
  /\ run = 1

InitRetry ==
  /\ MainAt("retry")
  /\ \E mr \in 0..MaxRetriesArg, bs \in 1..MaxBaseSleep :
       llm = call_llm_with_retry(<<"m">>, <<"p">>, SummaryNumPredict, mr, bs)
  /\ fnIn = NoneVal
  /\ fnOut = NoneVal

NextRetry ==
  \/ CallLlmOk
  \/ CallLlmFail
  \/ RetryExhausted

SpecRetry == InitRetry /\ [][NextRetry]_vars

-----------------------------------------------------------------------------
(* The cache key on its own: two argument tuples and their keys *)

KeyModels == { <<"m">>, <<"m", "|", "6", "1">> }
KeyTemplates == { <<"a">>, <<"b">> }
KeyTitles == { <<"t">>, <<"6", "2", "|", "t">>, <<"t", Surrogate>> }
KeyTexts == { << << <<"x">> >> >>, << << <<"x">>, <<"y">> >> >> }
KeyArgs ==
  [model : KeyModels, template : KeyTemplates, title : KeyTitles, text : KeyTexts]

KeyOf(a) == cache_key(a.model, a.template, a.title, a.text)

InitKey ==
  /\ MainAt("key")
  /\ llm = IdleLlm
  /\ fnIn \in [a : KeyArgs, b : KeyArgs]
  /\ fnOut = [a |-> <<>>, b |-> <<>>]

ComputeKeys ==
  /\ pc = "key"
  /\ pc' = "done"
  /\ fnOut' = [a |-> KeyOf(fnIn.a), b |-> KeyOf(fnIn.b)]
  /\ UNCHANGED <<args, chapters, prompt_template, idx, chapter_summaries, cache,
                 llm, cur, events, calls, run, fnIn>>

NextKey == ComputeKeys

SpecKey == InitKey /\ [][NextKey]_vars

-----------------------------------------------------------------------------
(* compress_chapter on its own *)

Vocabulary ==
  << <<"a", "b", "c">>, <<"A", "n", "a">>, <<"4", "2">>,
     <<"1", "9", "9", "9">>, <<"d", "e">> >>

\* The text whose lines have the word counts of shape, its words running
\* through the vocabulary.
RECURSIVE ShapeText(_, _)
ShapeText(shape, before) ==
  IF shape = <<>> THEN <<>>
  ELSE << [j \in 1..Head(shape) |->
             Vocabulary[((before + j - 1) % Len(Vocabulary)) + 1]] >>
       \o ShapeText(Tail(shape), before + Head(shape))

LineSizes == {0, 1, 45, 126, 127, 252, 253}
MaxLines == 2
MaxHeadTail == 2

Shapes == UNION { [1..n -> LineSizes] : n \in 1..MaxLines }

InitCompress ==
  /\ MainAt("compress")
  /\ llm = IdleLlm
  /\ \E sh \in Shapes, h \in 1..MaxHeadTail, t \in 1..MaxHeadTail :
       fnIn = [text |-> ShapeText(sh, 0), head_words |-> h, tail_words |-> t]
  /\ fnOut = <<>>

ApplyCompress ==
  /\ pc = "compress"
  /\ pc' = "done"
  /\ fnOut' = compress_chapter(fnIn.text, fnIn.head_words, fnIn.tail_words,
                               DefaultMaxSignalLines, DefaultMaxLineLen, TRUE)
  /\ UNCHANGED <<args, chapters, prompt_template, idx, chapter_summaries, cache,
                 llm, cur, events, calls, run, fnIn>>

NextCompress == ApplyCompress

SpecCompress == InitCompress /\ [][NextCompress]_vars


-----------------------------------------------------------------------------
(* extract_chapters on its own: any archive and any min_words *)

InitExtract ==
  /\ MainAt("extracting")
  /\ llm = IdleLlm
  /\ \E a \in Archives, mw \in 0..MaxMinWords :
       fnIn = [archive |-> a, min_words |-> mw]
  /\ fnOut = Failed("", "")

ApplyExtract ==
  /\ pc = "extracting"
  /\ pc' = "done"
  /\ fnOut' = extract_chapters(fnIn.archive, fnIn.min_words)
  /\ UNCHANGED <<args, chapters, prompt_template, idx, chapter_summaries, cache,
                 llm, cur, events, calls, run, fnIn>>

NextExtract == ApplyExtract

SpecExtract == InitExtract /\ [][NextExtract]_vars

-----------------------------------------------------------------------------
(* should_include_chapter on its own: items named after non-content        *)
(* documents                                                               *)

\* File names (and ids) of content items: the names publishers give to
\* non-content documents, and a neutral one.
ItemNames ==
  { <<"c", "1">>, <<"c", "o", "v", "e", "r">>, <<"t", "o", "c">>, <<"n", "a", "v">>, <<"n", "c", "x">>, <<"c", "o", "p", "y", "r", "i", "g", "h", "t">>, <<"p", "r", "e", "f", "a", "c", "e">>,
    <<"b", "i", "b", "l", "i", "o", "g", "r", "a", "p", "h", "y">>, <<"n", "o", "t", "e", "s">>, <<"a", "p", "p", "e", "n", "d", "i", "x">>, <<"g", "l", "o", "s", "s", "a", "r", "y">>, <<"d", "e", "d", "i", "c", "a", "t", "i", "o", "n">>,
    <<"e", "p", "i", "g", "r", "a", "p", "h">>, <<"E", "p", "i'", "g", "r", "a", "f", "e">> }

ItemIdrefs == { <<"i", "d", "1">>, <<"x", "-", "a", "p", "p", "e", "n", "d", "i", "x">> }
ItemTitles == { <<"O", "n", "e">>, <<"N", "o", "t", "e", "s">> }
ItemTexts == { << << <<"x">>, <<"y">> >> >>, << << <<"O", "n", "e">> >>, << <<"x">>, <<"y">> >> >> }
ItemMinWords == {0, 3}

InitClassify ==
  /\ MainAt("classifying")
  /\ llm = IdleLlm
  /\ \E n \in ItemNames, i \in ItemIdrefs, t \in ItemTitles, x \in ItemTexts,
        mw \in ItemMinWords :
       fnIn = [title |-> t, text |-> x, href |-> <<"O", "E", "B", "P", "S", "/">> \o n \o <<".", "x", "h", "t", "m", "l">>,
               idref |-> i, min_words |-> mw]
  /\ fnOut = FALSE

ApplyClassify ==
  /\ pc = "classifying"
  /\ pc' = "done"
  /\ fnOut' = should_include_chapter(fnIn.title, fnIn.text, fnIn.href, fnIn.idref,
                                     fnIn.min_words)
  /\ UNCHANGED <<args, chapters, prompt_template, idx, chapter_summaries, cache,
                 llm, cur, events, calls, run, fnIn>>

NextClassify == ApplyClassify

SpecClassify == InitClassify /\ [][NextClassify]_vars

-----------------------------------------------------------------------------
(* The title resolution of extract_chapters on its own *)

TitlePath == <<"O", "E", "B", "P", "S", "/", "c", "1", ".", "x", "h", "t", "m", "l">>

TocEntry(path, label) == [path |-> path, label |-> label]

\* TOC title maps: empty, a label for the item, a blank label for it, a
\* label overridden by a blank one, a label for another item.
TitleTocMaps ==
  { <<>>,
    << TocEntry(TitlePath, <<"F", "i", "r", "s", "t">>) >>,
    << TocEntry(TitlePath, <<>>) >>,
    << TocEntry(TitlePath, <<"F", "i", "r", "s", "t">>), TocEntry(TitlePath, <<>>) >>,
    << TocEntry(<<"O", "E", "B", "P", "S", "/", "c", "2", ".", "x", "h", "t", "m", "l">>, <<"E", "l", "s", "e">>) >> }

\* The texts of the h1-h3 elements of the document, in document order.
TitleHeadings ==
  { <<>>, << <<>> >>, << << <<"H", "e", "a", "d">> >> >>, << <<>>, << <<"L", "a", "t", "e">> >> >> }

\* A word of more than TitleMaxLen characters.
LongWord == [i \in 1..(TitleMaxLen + 1) |-> "a"]

\* The p and div elements of the document, in document order.
TitleBlocks ==
  { <<>>,
    << P(<< <<"b", "o", "d", "y">> >>) >>,
    << P(<< <<"b", "o", "d", "y">> >>), El("p", <<"s", "2", "h">>, <<>>, << <<"B", "l", "o", "c", "k">> >>) >>,
    << El("p", <<"s", "2", "h">>, <<>>, << LongWord >>),
       El("div", <<>>, <<"C", "h", "a", "p", "t", "e", "r", "1">>, <<>>),
       El("div", <<"x">>, <<"C", "h", "a", "p", "t", "e", "r", "2">>, << <<"S", "e", "c", "o", "n", "d">>, <<"B", "l", "o", "c", "k">> >>) >>,
    << El("p", <<"t", "i", "t", "l", "e">>, <<>>, << <<"S", "t", "y", "l", "e", "d">> >>) >> }

\* The texts of the title elements of the document.
TitleElements == { <<>>, << <<>> >>, << << <<"D", "o", "c">> >> >> }

TitleIdrefs == { <<"i", "d", "1">>, <<>> }

\* The document with these title elements, blocks and headings, in this
\* order.
TitleDoc(titles, blocks, headings) ==
  [i \in 1..Len(titles) |-> El("title", <<>>, <<>>, titles[i])]
  \o blocks
  \o [i \in 1..Len(headings) |->
        El(IF i = 1 THEN "h2" ELSE "h1", <<>>, <<>>, headings[i])]

InitTitle ==
  /\ MainAt("resolving")
  /\ llm = IdleLlm
  /\ \E m \in TitleTocMaps, h \in TitleHeadings, b \in TitleBlocks,
        t \in TitleElements, i \in TitleIdrefs :
       fnIn = [toc_title_map |-> m, headings |-> h, blocks |-> b, titles |-> t,
               raw |-> TitleDoc(t, b, h), internal_path |-> TitlePath,
               idref |-> i]
  /\ fnOut = <<>>

ApplyTitle ==
  /\ pc = "resolving"
  /\ pc' = "done"
  /\ fnOut' = resolve_title(fnIn.toc_title_map, fnIn.raw, fnIn.internal_path,
                            fnIn.idref)
  /\ UNCHANGED <<args, chapters, prompt_template, idx, chapter_summaries, cache,
                 llm, cur, events, calls, run, fnIn>>

NextTitle == ApplyTitle

SpecTitle == InitTitle /\ [][NextTitle]_vars
-----------------------------------------------------------------------------
(* Claims *)

SameArgs(c, d) ==
  /\ c.model = d.model
  /\ c.template = d.template
  /\ c.title = d.title
  /\ c.text = d.text
  /\ c.compress = d.compress

\* C1: of two successive calls of summarize_chapter with identical arguments
\* on one cache, the first of which missed the cache and got a value from the
\* generation service, the second makes no generation call and returns the
\* stored value: one generation call in total.
C1_Idempotent ==
  (/\ Len(calls) = 2
   /\ SameArgs(calls[1], calls[2])
   /\ calls[1].gens = 1
   /\ calls[1].outcome = "returned")
  => (/\ calls[2].outcome = "returned"
      /\ calls[2].gens = 0
      /\ calls[2].result = calls[1].result)

\* C2: once a key has a stored value, no step removes the key or changes the
\* value stored under it.
C2_WriteOnce ==
  [][\A k \in DOMAIN cache : k \in DOMAIN cache' /\ cache'[k] = cache[k]]_vars

Posts(f) == SelectSeq(f.trace, LAMBDA e : e.ev = "post")
Sleeps(f) == SelectSeq(f.trace, LAMBDA e : e.ev = "sleep")

\* C3: call_llm_with_retry makes its attempts one after the other, numbered
\* from 0; each failed attempt a is followed at once by a sleep of
\* base_sleep * 2^a; a successful attempt is the last thing it does and its
\* stripped answer is returned; when it raises, exactly max_retries attempts
\* were made, all failed, and the error wraps the last attempt's error.
C3_RetryExhaustion ==
  LET tr == llm.trace
      posts == Posts(llm)
  IN  /\ \A k \in 1..Len(posts) : posts[k].n = k - 1
      /\ Len(posts) <= llm.max_retries
      /\ \A i \in 1..Len(tr) :
           /\ (tr[i].ev = "post" /\ tr[i].s # "ok") =>
                /\ i < Len(tr)
                /\ tr[i + 1] = Ev("sleep", llm.base_sleep * Pow2(tr[i].n), "")
           /\ (tr[i].ev = "post" /\ tr[i].s = "ok") =>
                /\ i = Len(tr)
                /\ llm.status = "returned"
           /\ tr[i].ev = "sleep" =>
                /\ i > 1
                /\ tr[i - 1].ev = "post"
                /\ tr[i - 1].s # "ok"
      /\ llm.status = "returned" =>
           /\ tr # <<>>
           /\ tr[Len(tr)] = Ev("post", Len(posts) - 1, "ok")
           /\ \E raw \in RawResponses : llm.result = Strip(raw)
      /\ llm.status = "raised" =>
           /\ Len(posts) = llm.max_retries
           /\ Len(Sleeps(llm)) = llm.max_retries
           /\ \A k \in 1..Len(posts) : posts[k].s # "ok"
           /\ llm.wrapped =
                (IF posts = <<>> THEN NoneVal ELSE posts[Len(posts)].s)

\* C3 witness: three attempts failed, the last with another error than the
\* one before, and the call raised.
C3_Witness ==
  /\ llm.status = "raised"
  /\ llm.max_retries = 3
  /\ llm.base_sleep = 3
  /\ Len(Posts(llm)) = 3
  /\ Posts(llm)[2].s # Posts(llm)[3].s

Steps == SelectSeq(events, LAMBDA e : e.ev \in {"hit", "gen"})
Fails == SelectSeq(events, LAMBDA e : e.ev = "fail")
Builds == SelectSeq(events, LAMBDA e : e.ev = "build")

\* C4: in a run of main the chapters are summarized one at a time in
\* extracted order; the builder is invoked once, last, after every chapter has
\* been summarized; a failure of extraction, of the prompt loading or of a
\* chapter's summarization is the last thing the run does: no later chapter
\* is summarized and the builder is not invoked.
C4_AbortOnFailure ==
  /\ \A k \in 1..Len(Steps) : Steps[k].n = k
  /\ Len(Steps) <= Len(chapters)
  /\ Len(chapter_summaries) <= Len(Steps)
  /\ \A k \in 1..Len(chapter_summaries) :
       chapter_summaries[k].title = chapters[k].title
  /\ llm.status # "idle" =>
       /\ pc = "llm"
       /\ Steps # <<>>
       /\ Steps[Len(Steps)] = Ev("gen", idx, "")
       /\ Len(chapter_summaries) = idx - 1
  /\ Builds # <<>> =>
       /\ Len(Builds) = 1
       /\ events[Len(events)].ev = "build"
       /\ Fails = <<>>
       /\ Len(Steps) = Len(chapters)
       /\ Len(chapter_summaries) = Len(chapters)
       /\ pc = "done"
  /\ Fails # <<>> =>
       /\ Len(Fails) = 1
       /\ events[Len(events)].ev = "fail"
       /\ Builds = <<>>
       /\ pc = "failed"
       /\ llm.status = "idle"
  /\ pc = "failed" => Fails # <<>>
  /\ pc = "done" => Builds # <<>>

\* C4 witness: the second of two chapters failed after the first had been
\* summarized; the run stopped.
C4_Witness ==
  /\ pc = "failed"
  /\ Len(chapters) = 2
  /\ Len(chapter_summaries) = 1
  /\ events[Len(events)] = Ev("fail", 2, "generation")

Encodable(s) == \A i \in 1..Len(s) : s[i] # Surrogate

\* C7: two argument tuples that differ in a component have different keys
\* (stated for the tuples whose model and title are well-formed Unicode).
C7_KeySensitive ==
  (/\ pc = "done"
   /\ fnIn.a # fnIn.b
   /\ \A x \in {fnIn.a, fnIn.b} : Encodable(x.model) /\ Encodable(x.title))
  => fnOut.a # fnOut.b

\* C8: a text of more than head_words + tail_words + 250 words is compressed
\* to a text that holds its first head_words words under the opening marker
\* and its last tail_words words under the closing marker and is not longer
\* than it; a shorter text is returned unchanged.
C8_Compression ==
  pc = "done" =>
    LET text == fnIn.text
        words == Words(text)
        n == Len(words)
        h == fnIn.head_words
        t == fnIn.tail_words
        out == fnOut
    IN  IF n > h + t + UnchangedSlack
        THEN /\ Len(out) >= 5
             /\ out[1] = MarkerInicio
             /\ out[2] = SubSeq(words, 1, h)
             /\ out[Len(out) - 1] = MarkerFinal
             /\ out[Len(out)] = SubSeq(words, n - t + 1, n)
             /\ TextLen(out) <= TextLen(text)
        ELSE out = text


Idrefs(chs) == [i \in 1..Len(chs) |-> chs[i].idref]

\* s is a subsequence of t: s is matched from left to right in t.
RECURSIVE IsSubseq(_, _)
IsSubseq(s, t) ==
  IF s = <<>> THEN TRUE
  ELSE IF t = <<>> THEN FALSE
  ELSE IF Head(s) = Head(t) THEN IsSubseq(Tail(s), Tail(t))
  ELSE IsSubseq(s, Tail(t))

\* C5: the idrefs of the chapters extract_chapters returns are a subsequence
\* of the spine, in spine order, and nothing but filtering happened: they are
\* the spine without every occurrence of the idrefs that were rejected.
C5_OrderPreserved ==
  (pc = "done" /\ fnOut.ok) =>
    LET spine == fnIn.archive.opf.spine
        ids == Idrefs(fnOut.chapters)
        kept == {ids[i] : i \in 1..Len(ids)}
    IN  /\ IsSubseq(ids, spine)
        /\ ids = SelectSeq(spine, LAMBDA r : r \in kept)

\* C5 witness: a spine of three idrefs, the same one first and last and a
\* rejected one between them, gave two chapters of that idref.
C5_Witness ==
  /\ pc = "done"
  /\ fnOut.ok
  /\ Len(fnIn.archive.opf.spine) = 3
  /\ fnIn.archive.opf.spine[1] = fnIn.archive.opf.spine[3]
  /\ fnIn.archive.opf.spine[2] # fnIn.archive.opf.spine[1]
  /\ Len(fnOut.chapters) = 2
  /\ fnOut.chapters[1].idref = fnOut.chapters[2].idref

WordCount(text) == Len(Words(text))

FirstCandidate(a) ==
  FirstTrue([i \in 1..Len(OpfCandidates) |-> OpfCandidates[i] \in a.names])

\* C9: when container.xml is absent or cannot be parsed, the locator returns
\* the first conventional path that is in the archive, and fails, with the
\* error of a package file that was not found, only when none is.
C9_LocatorFallback ==
  (/\ pc = "done"
   /\ fnIn.archive.zip_ok
   /\ fnIn.archive.container \in {"absent", "malformed"})
  => IF FirstCandidate(fnIn.archive) # 0
     THEN /\ fnOut.stage # "locate"
          /\ fnOut.ok =>
               fnOut.metadata.opf_path = OpfCandidates[FirstCandidate(fnIn.archive)]
     ELSE ~fnOut.ok /\ fnOut.stage = "locate" /\ fnOut.err = "ValueError"

\* C10: when the package file is located and well-formed, extract_chapters
\* returns its chapters whatever the navigation file is; without a readable
\* navigation file the TOC title map is empty.
C10_NavigationNonFatal ==
  (pc = "done" /\ fnOut.stage \notin {"open", "locate", "descriptor"})
  => /\ fnOut.ok
     /\ (~fnIn.archive.ncx.wellformed \/ ~Truthy(fnOut.metadata.ncx_path)
         \/ fnOut.metadata.ncx_path.v \notin fnIn.archive.names)
        => fnOut.toc_title_map = <<>>

\* The hints C11 lists.
ListedHints ==
  { <<"c", "o", "v", "e", "r">>, <<"t", "o", "c">>, <<"n", "a", "v">>, <<"n", "c", "x">>, <<"c", "o", "p", "y", "r", "i", "g", "h", "t">>, <<"p", "r", "e", "f", "a", "c", "e">>, <<"b", "i", "b", "l", "i", "o", "g", "r", "a", "p", "h", "y">>,
    <<"n", "o", "t", "e", "s">>, <<"a", "p", "p", "e", "n", "d", "i", "x">>, <<"g", "l", "o", "s", "s", "a", "r", "y">>, <<"d", "e", "d", "i", "c", "a", "t", "i", "o", "n">>, <<"e", "p", "i", "g", "r", "a", "p", "h">> }

\* C11: an item whose normalized href and idref contain one of the listed
\* hints is rejected by should_include_chapter, whatever its title and its
\* word count.
C11_PathHintRejects ==
  (/\ pc = "done"
   /\ \E h \in ListedHints :
        Contains(norm(fnIn.href) \o <<" ">> \o norm(fnIn.idref), h))
  => ~fnOut

\* The five tiers of an item's title, each the empty string when it yields
\* nothing: the TOC label of the item's path, the text of the first h1-h3
\* heading, the text of the first heading-like block, the text of the
\* title element, the idref or else the file name.
TitleTiers ==
  LET m == fnIn.toc_title_map
      mine == SelectSeq(m, LAMBDA e : e.path = fnIn.internal_path)
      blocks == SelectSeq(fnIn.blocks,
                          LAMBDA b : /\ b.txt # <<>>
                                     /\ LineLen(b.txt) <= TitleMaxLen
                                     /\ looks_heading(b))
  IN  << IF mine = <<>> THEN <<>> ELSE mine[Len(mine)].label,
         IF fnIn.headings = <<>> THEN <<>> ELSE LineChars(fnIn.headings[1]),
         IF blocks = <<>> THEN <<>> ELSE LineChars(blocks[1].txt),
         IF fnIn.titles = <<>> THEN <<>> ELSE LineChars(fnIn.titles[1]),
         IF fnIn.idref # <<>> THEN fnIn.idref
         ELSE posixpath_basename(fnIn.internal_path) >>

FailureWritesNothing ==
  [][(llm.status = "raised" /\ llm'.status = "idle")
       => (cache' = cache /\ pc' = "failed")]_vars

\* In a run started after a run that failed in a generation call, no
\* generation call is made for a first chapter whose key has a stored entry.
StoredIsReused ==
  [](( /\ pc = "llm"
       /\ run > 1
       /\ calls # <<>>
       /\ calls[Len(calls)].outcome = "raised"
       /\ calls[Len(calls)].gens = 1 )
     => cur.key \notin DOMAIN cache)

\* C13: a generation call that fails after its retries writes nothing to the
\* cache and its error ends the run; the summaries stored for the earlier
\* chapters are still there and are reused, without a generation call, when
\* the command is run again.
C13_FailureKeepsCache == FailureWritesNothing /\ StoredIsReused

\* C14: of two successive summarize_chapter calls on one cache with the same
\* model, template, title and text and different compress flags, the first
\* of which returned a non-empty summary (which the cache then holds), the
\* second makes no generation call and returns that summary.
C14_CompressNotInKey ==
  (/\ Len(calls) = 2
   /\ calls[1].model = calls[2].model
   /\ calls[1].template = calls[2].template
   /\ calls[1].title = calls[2].title
   /\ calls[1].text = calls[2].text
   /\ calls[1].compress # calls[2].compress
   /\ calls[1].outcome = "returned"
   /\ calls[1].result # <<>>)
  => (/\ calls[2].outcome = "returned"
      /\ calls[2].gens = 0
      /\ calls[2].result = calls[1].result)

\* C14 witness: a call generated and stored a non-empty summary without
\* compression, and the next call, for the same chapter in a run with
\* compression, returned it from the cache.
C14_Witness ==
  /\ Len(calls) = 2
  /\ SameArgs(calls[1], [calls[2] EXCEPT !.compress = FALSE])
  /\ ~calls[1].compress
  /\ calls[2].compress
  /\ calls[1].gens = 1
  /\ calls[1].result # <<>>
  /\ calls[2].gens = 0
  /\ calls[2].result = calls[1].result
  /\ run = 2
=============================================================================
